---- MODULE Spec2Model ----
(***************************************************************************)
(* Model of the IBC-RAG chunking pipeline.                                 *)
(*                                                                         *)
(*   Part I   chunking/circular_merge.py : the chunk merge engine          *)
(*            (ChunkMergeRules.should_merge, handle_special_cases,         *)
(*            merge_references, merge_chunks).                             *)
(*   Part II  chunking/circular.py and chunking/rules.py : the document    *)
(*            processors (process_file, _extract_metadata, the section     *)
(*            splitters and the section-type processors).                  *)
(*                                                                         *)
(* Text.  A Python str is modelled as the sequence of its lexical tokens,   *)
(* white space included: a word, a blank " ", a line break NL, and, where  *)
(* a pattern of the code looks inside numerals, one token per digit.       *)
(* a + b is the concatenation of the two sequences and str.strip()         *)
(* removes the leading and trailing white-space tokens.  A short str whose *)
(* characters matter (a paragraph number) is the sequence of its           *)
(* characters.  Python's None is the value NoneVal.                        *)
(***************************************************************************)
EXTENDS Integers, Sequences, FiniteSets, TLC

VARIABLES
    \* ---- Part I: merge_chunks(chunks, metadata) ----
    input,          \* the `chunks` argument as the caller holds it
    metadata,       \* the `metadata` argument
    chunks,         \* the local `chunks` (after handle_special_cases)
    merged_chunks,  \* the local `merged_chunks`
    current_chunk,  \* the local `current_chunk`: <<>> is None, else <<chunk>>
    idx,            \* position of the for loop in `chunks` (1-based, next to visit)
    pc,             \* "start" | "loop" | "done" | "raised"
    last,           \* what the last loop iteration did (decision, tokens, operands)
    called_with,    \* the two arguments as they were when merge_chunks was called
    shares,         \* which dict objects the local names refer to (see deepcopy)
    \* ---- Part II: process_file(file_path) on one processor instance ----
    family,         \* "circular" (CircularProcessor) | "notification" (NotificationProcessor)
    file,           \* the text of the file at file_path
    clock,          \* the wall clock datetime.now() reads
    self_metadata,  \* self.metadata
    self_chunks,    \* self.chunks
    frame,          \* the locals of the running call: content, doc_hash, english_content
    dpc,            \* "idle" | "english" | "metadata" | "chunks" | "return"
    results,        \* what the calls made so far returned or raised, in order
    \* ---- Part II: process_file called by several workers on one instance ----
    workers,        \* per worker: its file, the locals and position of its call, its result
    \* ---- Part III: the scripts ----
    batch,          \* process_folder / process_files: the files, the loop position, stats
    act,            \* chunk_markdown_document(text): its locals
    parser          \* CodeParser: its attributes and the position of parse_code

mergeVars ==
    <<input, metadata, chunks, merged_chunks, current_chunk, idx, pc, last,
      called_with, shares>>

docVars == <<family, file, clock, self_metadata, self_chunks, frame, dpc, results>>

workerVars == <<workers>>

scriptVars == <<batch, act, parser>>

vars == <<mergeVars, docVars, workerVars, scriptVars>>

----------------------------------------------------------------------------
(* Bounds of the model *)

MaxChunks == 3

----------------------------------------------------------------------------
(* Python values *)

NoneVal == <<"None">>

\* Python truthiness of an Optional[str]: None and "" are falsy.
Truthy(v) == v # NoneVal /\ v # <<>>

Digits == {"0", "1", "2", "3", "4", "5", "6", "7", "8", "9"}

DigitVal(c) ==
    CASE c = "0" -> 0 [] c = "1" -> 1 [] c = "2" -> 2 [] c = "3" -> 3
      [] c = "4" -> 4 [] c = "5" -> 5 [] c = "6" -> 6 [] c = "7" -> 7
      [] c = "8" -> 8 [] c = "9" -> 9 [] OTHER -> 0

RECURSIVE DecimalValue(_)
DecimalValue(s) ==
    IF s = <<>> THEN 0
    ELSE 10 * DecimalValue(SubSeq(s, 1, Len(s) - 1)) + DigitVal(s[Len(s)])

\* int(s) for a str s: the value of a decimal literal, ValueError otherwise.
PyInt(s) ==
    IF s # <<>> /\ \A i \in 1..Len(s) : s[i] \in Digits
    THEN [ok |-> TRUE, val |-> DecimalValue(s)]
    ELSE [ok |-> FALSE, val |-> 0]

Abs(n) == IF n < 0 THEN -n ELSE n

\* str(v) of an Optional[str].
PyStr(v) == IF v = NoneVal THEN <<"N", "o", "n", "e">> ELSE v

NL == "\n"

Whitespace == {" ", NL}

\* " ".join(ss)
RECURSIVE JoinBlank(_)
JoinBlank(ss) ==
    IF ss = <<>> THEN <<>>
    ELSE IF Len(ss) = 1 THEN ss[1]
    ELSE Head(ss) \o <<" ">> \o JoinBlank(Tail(ss))

\* str.strip()
RECURSIVE Strip(_)
Strip(s) ==
    IF s = <<>> THEN s
    ELSE IF Head(s) \in Whitespace THEN Strip(Tail(s))
    ELSE IF s[Len(s)] \in Whitespace THEN Strip(SubSeq(s, 1, Len(s) - 1))
    ELSE s

----------------------------------------------------------------------------
(* The tokenizer (tiktoken, an external collaborator).  len(encoder.encode(s))
   is the sum of the counts of the words of s: a blank is encoded with the
   word that follows it and adds no token of its own.  A "passage<n>" word
   stands for a passage of running text of n tokens. *)

AtomTokens(a) ==
    CASE a \in Whitespace -> 0
      [] a = "2016." -> 3
      [] a = "2020." -> 3
      [] a = "3." -> 2
      [] a = "4." -> 2
      [] a = "5." -> 2
      [] a = "iv." -> 2
      [] a = "days." -> 2
      [] a = "passage138" -> 138
      [] a = "passage448" -> 448
      [] a = "passage599" -> 599
      [] OTHER -> 1

RECURSIVE TokenCount(_)
TokenCount(s) == IF s = <<>> THEN 0 ELSE AtomTokens(Head(s)) + TokenCount(Tail(s))

----------------------------------------------------------------------------
(* class ChunkMergeRules *)

MIN_TOKENS == 150
MAX_TOKENS == 600
TINY_TOKENS == 20

\* chunk.get("paragraph_number"): None when the key is absent.
GetParagraphNumber(chunk) ==
    IF "paragraph_number" \in chunk.keys THEN chunk.paragraph_number ELSE NoneVal

\* The try block of should_merge: int() of both paragraph numbers.
ConsecutiveParagraphs(p1, p2) ==
    LET i1 == PyInt(p1)
        i2 == PyInt(p2)
    IN  IF i2.ok /\ i1.ok
        THEN [raised |-> FALSE, value |-> (Abs(i2.val - i1.val) = 1)]
        ELSE [raised |-> TRUE, value |-> FALSE]

\* Variant: the try block without its except clause.
CatchValueError_NoHandler(r) == r

\* except ValueError: pass
CatchValueError(r) == [raised |-> FALSE, value |-> r.value]

\* Variant: rule (d) without the comparison of the two paragraph numbers.
should_merge_AnyDirectives(chunk1, chunk2, combined_tokens) ==
    IF combined_tokens < MIN_TOKENS
    THEN [raised |-> FALSE, value |-> TRUE, rule |-> "a"]
    ELSE IF combined_tokens > MAX_TOKENS
    THEN [raised |-> FALSE, value |-> FALSE, rule |-> "b"]
    ELSE IF TokenCount(chunk2.content) < TINY_TOKENS
    THEN [raised |-> FALSE, value |-> TRUE, rule |-> "c"]
    ELSE IF /\ chunk1.chunk_type = "DIRECTIVE"
            /\ chunk2.chunk_type = "DIRECTIVE"
            /\ Truthy(GetParagraphNumber(chunk1))
            /\ Truthy(GetParagraphNumber(chunk2))
    THEN [raised |-> FALSE, value |-> TRUE, rule |-> "d"]
    ELSE [raised |-> FALSE, value |-> FALSE, rule |-> "e"]

\* Variant: the tiny-chunk rule is tried before the ceiling.
should_merge_TinyFirst(chunk1, chunk2, combined_tokens) ==
    IF combined_tokens < MIN_TOKENS
    THEN [raised |-> FALSE, value |-> TRUE, rule |-> "a"]
    ELSE IF TokenCount(chunk2.content) < TINY_TOKENS
    THEN [raised |-> FALSE, value |-> TRUE, rule |-> "c"]
    ELSE [raised |-> FALSE, value |-> FALSE, rule |-> "e"]

\* Variant: should_merge without the small-combined-size rule.
should_merge_NoMinRule(chunk1, chunk2, combined_tokens) ==
    IF combined_tokens > MAX_TOKENS
    THEN [raised |-> FALSE, value |-> FALSE, rule |-> "b"]
    ELSE IF TokenCount(chunk2.content) < TINY_TOKENS
    THEN [raised |-> FALSE, value |-> TRUE, rule |-> "c"]
    ELSE [raised |-> FALSE, value |-> FALSE, rule |-> "e"]

\* ChunkMergeRules.should_merge: [raised, value]; rule names the branch taken.
should_merge(chunk1, chunk2, combined_tokens) ==
    IF combined_tokens < MIN_TOKENS
    THEN [raised |-> FALSE, value |-> TRUE, rule |-> "a"]
    ELSE IF combined_tokens > MAX_TOKENS
    THEN [raised |-> FALSE, value |-> FALSE, rule |-> "b"]
    ELSE IF TokenCount(chunk2.content) < TINY_TOKENS
    THEN [raised |-> FALSE, value |-> TRUE, rule |-> "c"]
    ELSE IF /\ chunk1.chunk_type = "DIRECTIVE"
            /\ chunk2.chunk_type = "DIRECTIVE"
            /\ Truthy(GetParagraphNumber(chunk1))
            /\ Truthy(GetParagraphNumber(chunk2))
    THEN LET r == CatchValueError(ConsecutiveParagraphs(chunk1.paragraph_number,
                                                        chunk2.paragraph_number))
         IN  IF r.raised THEN [raised |-> TRUE, value |-> FALSE, rule |-> "d"]
             ELSE IF r.value THEN [raised |-> FALSE, value |-> TRUE, rule |-> "d"]
             ELSE [raised |-> FALSE, value |-> FALSE, rule |-> "e"]
    ELSE [raised |-> FALSE, value |-> FALSE, rule |-> "e"]

----------------------------------------------------------------------------
(* handle_special_cases *)

YearArtifacts == {<<"2016.">>, <<"2020.">>}

RemoveAt(s, i) == SubSeq(s, 1, i - 1) \o SubSeq(s, i + 1, Len(s))

\* One iteration of the while loop at (1-based) position i, then the rest.
RECURSIVE SpecialCasesFrom(_, _)
SpecialCasesFrom(cs, i) ==
    IF i <= 1 THEN cs
    ELSE IF Strip(cs[i].content) \in YearArtifacts
    THEN SpecialCasesFrom(
             RemoveAt([cs EXCEPT ![i - 1].content = @ \o <<" ">> \o cs[i].content], i),
             i - 1)
    ELSE SpecialCasesFrom(cs, i - 1)

\* Variant: the special-case pass folds nothing.
handle_special_cases_NoFold(cs) == cs

handle_special_cases(cs) == SpecialCasesFrom(cs, Len(cs))

----------------------------------------------------------------------------
(* merge_references: list(set(a + b)) per key.  The order of a list made from
   a set of str depends on the interpreter's string hashing, so every order
   of the distinct elements is a possible result. *)

Range(s) == {s[i] : i \in 1..Len(s)}

OrderingsOf(S) ==
    {s \in [1..Cardinality(S) -> S] : Range(s) = S}

RefsGet(refs, k) == IF k \in DOMAIN refs THEN refs[k] ELSE <<>>

\* Variant: the two lists are concatenated without the set() that removes duplicates.
merge_references_NoDedup(refs1, refs2) ==
    LET ks == (DOMAIN refs1) \cup (DOMAIN refs2)
    IN  {[k \in ks |-> RefsGet(refs1, k) \o RefsGet(refs2, k)]}

merge_references(refs1, refs2) ==
    LET ks == (DOMAIN refs1) \cup (DOMAIN refs2)
    IN  {m \in [ks -> UNION {OrderingsOf(Range(RefsGet(refs1, k) \o RefsGet(refs2, k))) : k \in ks}] :
            \A k \in ks : m[k] \in OrderingsOf(Range(RefsGet(refs1, k) \o RefsGet(refs2, k)))}

----------------------------------------------------------------------------
(* merge_chunks *)

\* current_chunk["metadata"] = {...}
ChunkMetadata(md) ==
    [circular_number |-> md.circular_number, date |-> md.date, subject |-> md.subject]

AttachMetadata(chunk, md) ==
    [chunk EXCEPT !.keys = @ \cup {"metadata"}, !.metadata = ChunkMetadata(md)]

\* Variant: the scalar paragraph_number is set to None, its key kept.
UpdateParagraphNumbers_NullScalar(cur, chunk) ==
    IF Truthy(GetParagraphNumber(cur)) /\ Truthy(GetParagraphNumber(chunk))
    THEN [cur EXCEPT !.keys = @ \cup {"paragraph_numbers"},
                     !.paragraph_numbers = <<PyStr(GetParagraphNumber(cur)),
                                             PyStr(GetParagraphNumber(chunk))>>,
                     !.paragraph_number = NoneVal]
    ELSE cur

\* Variant: the scalar paragraph_number is not deleted.
UpdateParagraphNumbers_KeepScalar(cur, chunk) ==
    IF Truthy(GetParagraphNumber(cur)) /\ Truthy(GetParagraphNumber(chunk))
    THEN [cur EXCEPT !.keys = @ \cup {"paragraph_numbers"},
                     !.paragraph_numbers = <<PyStr(GetParagraphNumber(cur)),
                                             PyStr(GetParagraphNumber(chunk))>>]
    ELSE cur

\* The "Update paragraph numbers" block.
UpdateParagraphNumbers(cur, chunk) ==
    IF Truthy(GetParagraphNumber(cur)) /\ Truthy(GetParagraphNumber(chunk))
    THEN [cur EXCEPT !.keys = (@ \cup {"paragraph_numbers"}) \ {"paragraph_number"},
                     !.paragraph_numbers = <<PyStr(GetParagraphNumber(cur)),
                                             PyStr(GetParagraphNumber(chunk))>>,
                     !.paragraph_number = NoneVal]
    ELSE cur

\* Variant: the next chunk's content is put in front of the accumulator's.
MergeInto_Swapped(cur, chunk, refs) ==
    [cur EXCEPT !.content = chunk.content \o <<" ">> \o cur.content, !.references = refs]

\* The merge branch of the loop body, for one choice of the merged references.
MergeInto(cur, chunk, refs) ==
    UpdateParagraphNumbers(
        [cur EXCEPT !.content = cur.content \o <<" ">> \o chunk.content, !.references = refs],
        chunk)

----------------------------------------------------------------------------
(* The arguments of merge_chunks: chunk dicts and a metadata dict as
   scripts/merge_chunks_circular.py loads them from the JSON files that
   process_file's result is saved to. *)

NoChunkMetadata == [circular_number |-> NoneVal, date |-> NoneVal, subject |-> NoneVal]

\* asdict(CircularChunk(...)): the six dataclass fields are keys of the dict;
\* "paragraph_numbers" and "metadata" are keys only merge_chunks adds.
ChunkDict(id, type, pnum, content, refs, ctx) ==
    [chunk_id |-> id, chunk_type |-> type, paragraph_number |-> pnum,
     content |-> content, references |-> refs, context |-> ctx,
     keys |-> {"paragraph_number"},
     paragraph_numbers |-> <<>>, metadata |-> NoChunkMetadata]

BodyShort ==
    <<"Filing", " ", "shall", " ", "be", " ", "done", " ", "within", " ", "30", " ", "days.">>
BodyYear == <<"2016.">>
BodyMid == <<"passage138">>
BodyBig == <<"passage448">>
BodyHuge == <<"passage599">>

RefsOfBody(body) ==
    CASE body = BodyShort ->
           [circulars |-> <<>>, sections |-> <<"5", "5">>, regulations |-> <<>>,
            external_links |-> <<>>]
      [] body = BodyMid -> [sections |-> <<"5">>]
      [] body = BodyBig -> [sections |-> <<"5", "7">>, circulars |-> <<"X/1/2020">>]
      [] OTHER ->
           [circulars |-> <<>>, sections |-> <<>>, regulations |-> <<>>,
            external_links |-> <<>>]

CtxOfBody(body) ==
    IF body = BodyShort THEN [directive_type |-> "mandatory"] ELSE [directive_type |-> "none"]

ContextChunk(body) ==
    ChunkDict(<<"context_1">>, "CONTEXT", NoneVal, body, RefsOfBody(body), CtxOfBody(body))

ClosingChunk(body) ==
    ChunkDict(<<"closing">>, "POWER_CITATION", NoneVal, body, RefsOfBody(body), CtxOfBody(body))

\* A numbered paragraph: its content opens with the marker "<number>.".
DirectiveChunk(pnum, marker, body) ==
    ChunkDict(<<"para_">> \o pnum, "DIRECTIVE", pnum,
              IF body = <<>> THEN marker ELSE marker \o <<" ">> \o body,
              RefsOfBody(body), CtxOfBody(body))

ChunkPool ==
    {ContextChunk(b) : b \in {BodyShort, BodyMid, BodyBig}}
    \cup {ClosingChunk(b) : b \in {BodyShort, BodyMid}}
    \cup {DirectiveChunk(<<"3">>, <<"3.">>, b) : b \in {BodyShort, BodyMid, BodyBig, BodyHuge}}
    \cup {DirectiveChunk(<<"4">>, <<"4.">>, b) : b \in {BodyYear, BodyShort, BodyMid, BodyBig}}
    \cup {DirectiveChunk(<<"5">>, <<"5.">>, BodyMid),
          DirectiveChunk(<<"i", "v">>, <<"iv.">>, BodyMid),
          DirectiveChunk(<<"2", "0", "1", "6">>, <<"2016.">>, <<>>),
          DirectiveChunk(<<"2", "0", "2", "0">>, <<"2020.", " ">>, <<>>)}

DocMetadata(num, hash) ==
    [authority |-> "Insolvency and Bankruptcy Board of India",
     circular_number |-> num, date |-> "12[th] June, 2018",
     subject |-> "Filing of forms", total_pages |-> NoneVal,
     reference_circulars |-> <<>>, effective_date |-> NoneVal,
     power_reference |-> NoneVal, file_name |-> "circular.md",
     processing_timestamp |-> 0, document_hash |-> hash]

MetadataPool == {DocMetadata("IBBI/LA/001/2018", "hash1"), DocMetadata("", "hash2")}

ChunkLists == UNION {[1..n -> ChunkPool] : n \in 0..MaxChunks}

\* copy.deepcopy makes new objects all the way down.  The model gives every
\* dict of the caller's list its index as identity and 0 to a dict that no
\* name outside the call refers to; a local name holds the identity of the
\* dict it refers to, and an assignment to a key of a shared dict is seen
\* through every name that refers to it.

\* Variant: copy.copy of the list, a new list of the same dicts.
deepcopy_chunks_Shallow(objects) == objects

\* copy.deepcopy(chunks) in handle_special_cases: the identities of the dicts
\* of the new list.
deepcopy_chunks(objects) == [k \in 1..Len(objects) |-> 0]

\* copy.deepcopy(chunk) in the loop: the identity of the accumulator, given
\* the position of `chunk` in the local list.
deepcopy_chunk(k) == 0

WithObject(chunk, o) ==
    [f \in DOMAIN chunk \cup {"object"} |-> IF f = "object" THEN o ELSE chunk[f]]

WithoutObject(chunk) == [f \in DOMAIN chunk \ {"object"} |-> chunk[f]]

\* The identities of the dicts of the caller's list.
CallerObjects(cs) == [i \in 1..Len(cs) |-> i]

WithObjects(cs, objects) == [k \in 1..Len(cs) |-> WithObject(cs[k], objects[k])]

WithoutObjects(cs) == [k \in 1..Len(cs) |-> WithoutObject(cs[k])]

ObjectsOf(cs) == [k \in 1..Len(cs) |-> cs[k].object]

\* The caller's list once the dicts named in the local list `cs` have the
\* values they have there.
SeenByCaller(inp, cs) ==
    [i \in 1..Len(inp) |->
        IF \E k \in 1..Len(cs) : cs[k].object = i
        THEN WithoutObject(cs[CHOOSE k \in 1..Len(cs) : cs[k].object = i])
        ELSE inp[i]]

NoSharing == [chunks |-> <<>>, current |-> 0]

\* The local list and the caller's list after the accumulator was assigned acc.
ChunksAfterWrite(acc) ==
    IF shares.current = 0 THEN chunks ELSE [chunks EXCEPT ![shares.current] = acc]

InputAfterWrite(acc) ==
    IF shares.current = 0 \/ shares.chunks[shares.current] = 0 THEN input
    ELSE [input EXCEPT ![shares.chunks[shares.current]] = acc]

NoStep == [kind |-> "none", rule |-> "-", raised |-> FALSE, combined_tokens |-> 0,
           a |-> <<>>, b |-> <<>>]

NoFrame == [content |-> <<>>, doc_hash |-> <<>>, english_content |-> <<>>]

\* The processor as __init__ leaves it, no call made.
DocIdle ==
    /\ clock = 0
    /\ self_metadata = NoneVal
    /\ self_chunks = <<>>
    /\ frame = NoFrame
    /\ dpc = "idle"
    /\ results = <<>>
    /\ workers = <<>>

\* no script is running
NoBatch == [driver |-> "none"]
NoAct == [pc |-> "none"]
NoParser == [pc |-> "none"]

ScriptsIdle == batch = NoBatch /\ act = NoAct /\ parser = NoParser

InitMerge ==
    /\ family = "circular"
    /\ file = <<>>
    /\ DocIdle
    /\ ScriptsIdle
    /\ input \in ChunkLists
    /\ metadata \in MetadataPool
    /\ chunks = <<>>
    /\ merged_chunks = <<>>
    /\ current_chunk = <<>>
    /\ idx = 0
    /\ pc = "start"
    /\ last = NoStep
    /\ called_with = [chunks |-> input, metadata |-> metadata]
    /\ shares = NoSharing

\* chunks = handle_special_cases(chunks); merged_chunks = []; current_chunk = None
SpecialCases ==
    /\ pc = "start"
    /\ \E folded \in {handle_special_cases(
                           WithObjects(input, deepcopy_chunks(CallerObjects(input))))} :
           /\ chunks' = WithoutObjects(folded)
           /\ shares' = [chunks |-> ObjectsOf(folded), current |-> 0]
           /\ input' = SeenByCaller(input, folded)
    /\ merged_chunks' = <<>>
    /\ current_chunk' = <<>>
    /\ idx' = 1
    /\ pc' = "loop"
    /\ UNCHANGED <<metadata, last, called_with>>
    /\ UNCHANGED docVars
    /\ UNCHANGED workerVars
    /\ UNCHANGED scriptVars

\* One iteration of `for chunk in chunks`.
LoopStep ==
    /\ pc = "loop"
    /\ idx <= Len(chunks)
    /\ LET chunk == chunks[idx]
       IN  IF current_chunk = <<>>
           THEN /\ current_chunk' = <<chunk>>
                /\ shares' = [shares EXCEPT !.current = deepcopy_chunk(idx)]
                /\ idx' = idx + 1
                /\ last' = [NoStep EXCEPT !.kind = "first", !.b = <<chunk>>]
                /\ UNCHANGED <<merged_chunks, pc, input, chunks>>
           ELSE LET cur == current_chunk[1]
                    combined_content == cur.content \o <<" ">> \o chunk.content
                    combined_tokens == TokenCount(combined_content)
                    d == should_merge(cur, chunk, combined_tokens)
                    step == [kind |-> "-", rule |-> d.rule, raised |-> d.raised,
                             combined_tokens |-> combined_tokens,
                             a |-> <<cur>>, b |-> <<chunk>>]
                IN  IF d.raised
                    THEN /\ pc' = "raised"
                         /\ last' = [step EXCEPT !.kind = "raise"]
                         /\ UNCHANGED <<merged_chunks, current_chunk, idx, input, chunks, shares>>
                    ELSE IF d.value
                    THEN /\ \E refs \in merge_references(cur.references, chunk.references) :
                              LET acc == MergeInto(cur, chunk, refs)
                              IN  /\ current_chunk' = <<acc>>
                                  /\ chunks' = ChunksAfterWrite(acc)
                                  /\ input' = InputAfterWrite(acc)
                         /\ idx' = idx + 1
                         /\ last' = [step EXCEPT !.kind = "merge"]
                         /\ UNCHANGED <<merged_chunks, pc, shares>>
                    ELSE /\ merged_chunks' = Append(merged_chunks, AttachMetadata(cur, metadata))
                         /\ chunks' = ChunksAfterWrite(AttachMetadata(cur, metadata))
                         /\ input' = InputAfterWrite(AttachMetadata(cur, metadata))
                         /\ current_chunk' = <<chunk>>
                         /\ shares' = [shares EXCEPT !.current = deepcopy_chunk(idx)]
                         /\ idx' = idx + 1
                         /\ last' = [step EXCEPT !.kind = "flush"]
                         /\ UNCHANGED pc
    /\ UNCHANGED <<metadata, called_with>>
    /\ UNCHANGED docVars
    /\ UNCHANGED workerVars
    /\ UNCHANGED scriptVars

\* After the loop: flush the accumulator and return merged_chunks.
Return ==
    /\ pc = "loop"
    /\ idx > Len(chunks)
    /\ IF current_chunk = <<>>
       THEN UNCHANGED <<merged_chunks, chunks, input>>
       ELSE LET acc == AttachMetadata(current_chunk[1], metadata)
            IN  /\ merged_chunks' = Append(merged_chunks, acc)
                /\ chunks' = ChunksAfterWrite(acc)
                /\ input' = InputAfterWrite(acc)
    /\ pc' = "done"
    /\ last' = NoStep
    /\ UNCHANGED <<metadata, current_chunk, idx, called_with, shares>>
    /\ UNCHANGED docVars
    /\ UNCHANGED workerVars
    /\ UNCHANGED scriptVars

NextMerge == SpecialCases \/ LoopStep \/ Return

Spec == InitMerge /\ [][NextMerge]_vars

----------------------------------------------------------------------------
(* Properties of the merge engine *)

Contents(cs) == [i \in 1..Len(cs) |-> cs[i].content]

\* The last index k >= i with cs[i..k] joined equal to content; 0 when there is none.
RunEnd(content, cs, i) ==
    LET ends == {k \in i..Len(cs) : JoinBlank(SubSeq(Contents(cs), i, k)) = content}
    IN  IF ends = {} THEN 0 ELSE CHOOSE k \in ends : \A j \in ends : j <= k

\* The runs <<first, last>> of cs that the contents of outs are the joins of,
\* read left to right; <<0, 0>> from the first output that is no such run.
RECURSIVE RunsFrom(_, _, _)
RunsFrom(outs, cs, i) ==
    IF outs = <<>> THEN <<>>
    ELSE LET k == RunEnd(Head(outs).content, cs, i)
         IN  IF k = 0 THEN <<<<0, 0>>>>
             ELSE <<<<i, k>>>> \o RunsFrom(Tail(outs), cs, k + 1)

\* outs is cs cut into contiguous runs, in order, nothing dropped or repeated.
IsRunPartition(outs, cs) ==
    LET runs == RunsFrom(outs, cs, 1)
    IN  /\ Len(runs) = Len(outs)
        /\ \A r \in 1..Len(runs) : runs[r] # <<0, 0>>
        /\ (IF runs = <<>> THEN cs = <<>> ELSE runs[Len(runs)][2] = Len(cs))

NoDuplicates(s) == Cardinality(Range(s)) = Len(s)

\* C1: every chunk returned by merge_chunks has token_count(content) <=
\* MAX_TOKENS, whatever the sizes of the input chunks.
C1_TokenBudgetUpperBound ==
    pc = "done" =>
        \A i \in 1..Len(merged_chunks) :
            TokenCount(merged_chunks[i].content) <= MAX_TOKENS

\* C2: two chunks adjacent in the list the main pass iterates over, whose
\* combined token count is below MIN_TOKENS, are never both returned as
\* separate, unmerged chunks.
C2_NoLossOfSmallChunks ==
    pc = "done" =>
        LET runs == RunsFrom(merged_chunks, chunks, 1)
        IN  \A i \in 1..(Len(chunks) - 1) :
                TokenCount(chunks[i].content \o <<" ">> \o chunks[i + 1].content) < MIN_TOKENS
                => ~ (\E r \in 1..(Len(runs) - 1) :
                          runs[r] = <<i, i>> /\ runs[r + 1] = <<i + 1, i + 1>>)

\* C2 witness: a pair below MIN_TOKENS was met by the main pass and the run
\* returned one chunk holding both.
C2_Witness ==
    /\ pc = "done"
    /\ Len(chunks) = 3
    /\ TokenCount(chunks[2].content \o <<" ">> \o chunks[3].content) < MIN_TOKENS
    /\ TokenCount(chunks[1].content \o <<" ">> \o chunks[2].content) > MAX_TOKENS
    /\ RunsFrom(merged_chunks, chunks, 1) = <<<<1, 1>>, <<2, 3>>>>

\* C3: the returned chunks are the input list cut into contiguous runs, each
\* joined with single blanks: nothing is dropped, repeated or reordered.
C3_ContiguousRuns ==
    pc = "done" =>
        /\ IsRunPartition(merged_chunks, input)
        /\ JoinBlank(Contents(merged_chunks)) = JoinBlank(Contents(input))

\* C3 witness: a run of three inputs returned as two chunks, one of them a
\* merge, with a special-case fold before the main pass.
C3_Witness ==
    /\ pc = "done"
    /\ Len(input) = 3
    /\ Len(chunks) = 2
    /\ Len(merged_chunks) = 2
    /\ RunsFrom(merged_chunks, input, 1) = <<<<1, 2>>, <<3, 3>>>>

\* C4: after a merge the references map has exactly the keys of either chunk,
\* and each value is, as a set, the union of the two lists, without duplicates.
C4_ReferenceUnion ==
    last.kind = "merge" =>
        LET r1 == last.a[1].references
            r2 == last.b[1].references
            m == current_chunk[1].references
        IN  /\ DOMAIN m = (DOMAIN r1) \cup (DOMAIN r2)
            /\ \A k \in DOMAIN m :
                   /\ Range(m[k]) = Range(RefsGet(r1, k)) \cup Range(RefsGet(r2, k))
                   /\ NoDuplicates(m[k])

\* C4 witness: the spec's example, {"sections": ["5"]} merged with
\* {"sections": ["5", "7"], "circulars": ["X/1/2020"]}.
C4_Witness ==
    /\ last.kind = "merge"
    /\ last.a[1].references = [sections |-> <<"5">>]
    /\ last.b[1].references = [sections |-> <<"5", "7">>, circulars |-> <<"X/1/2020">>]
    /\ current_chunk[1].references = [sections |-> <<"7", "5">>, circulars |-> <<"X/1/2020">>]

HasScalarParagraph(c) ==
    "paragraph_number" \in c.keys /\ c.paragraph_number # NoneVal

\* C5: a merge of an accumulator with scalar paragraph_number p and a next
\* chunk with scalar paragraph_number q # p leaves paragraph_numbers =
\* [str(p), str(q)] and no paragraph_number key.
C5_Pluralization ==
    (/\ last.kind = "merge"
     /\ HasScalarParagraph(last.a[1])
     /\ HasScalarParagraph(last.b[1])
     /\ last.a[1].paragraph_number # last.b[1].paragraph_number)
    => /\ "paragraph_numbers" \in current_chunk[1].keys
       /\ current_chunk[1].paragraph_numbers =
              <<last.a[1].paragraph_number, last.b[1].paragraph_number>>
       /\ "paragraph_number" \notin current_chunk[1].keys

\* C5 witness: paragraphs "3" and "4" merged by the consecutive-directive rule.
C5_Witness ==
    /\ last.kind = "merge"
    /\ last.rule = "d"
    /\ HasScalarParagraph(last.a[1])
    /\ last.a[1].paragraph_number = <<"3">>
    /\ last.b[1].paragraph_number = <<"4">>
    /\ current_chunk[1].paragraph_numbers = <<<<"3">>, <<"4">>>>

C6_Section3 == DirectiveChunk(<<"3">>, <<"3.">>, BodyShort)
C6_Section4 == DirectiveChunk(<<"4">>, <<"4.">>, BodyYear)
C6_BareYear == DirectiveChunk(<<"2", "0", "1", "6">>, <<"2016.">>, <<>>)
C6_Folded == <<"3.", " ">> \o BodyShort \o <<" ", "2016.">>
C6_Joined == <<"3.", " ">> \o BodyShort \o <<" ", "4.", " ", "2016.">>

\* C6 as stated: "3. Filing shall be done within 30 days." and "4. 2016." are
\* folded by the special-case pass into the single chunk
\* "3. Filing shall be done within 30 days. 2016.".
C6_ScenarioAsStated ==
    (input = <<C6_Section3, C6_Section4>> /\ pc # "start")
    => /\ Len(chunks) = 1
       /\ chunks[1].content = C6_Folded
       /\ (pc = "done" => Len(merged_chunks) = 1 /\ merged_chunks[1].content = C6_Folded)

\* C6 amended: the special-case pass leaves "4. 2016." alone (its content is not
\* a bare year) and rule (a) of the main pass merges the two chunks into
\* "3. Filing shall be done within 30 days. 4. 2016."; when the second chunk's
\* content is the bare "2016.", the special-case pass folds it, before the
\* main pass, into "3. Filing shall be done within 30 days. 2016.".
C6_ScenarioAmended ==
    /\ (input = <<C6_Section3, C6_Section4>> /\ pc # "start")
       => /\ chunks = input
          /\ (idx = 3 /\ pc = "loop" => last.kind = "merge" /\ last.rule = "a")
          /\ (pc = "done" =>
                 /\ Len(merged_chunks) = 1
                 /\ merged_chunks[1].content = C6_Joined)
    /\ (input = <<C6_Section3, C6_BareYear>> /\ pc # "start")
       => /\ Len(chunks) = 1
          /\ chunks[1].content = C6_Folded
          /\ (pc = "done" =>
                 /\ Len(merged_chunks) = 1
                 /\ merged_chunks[1].content = C6_Folded)

\* C6 witness: the run on the stated pair has returned.
C6_Witness ==
    /\ input = <<C6_Section3, C6_Section4>>
    /\ pc = "done"
    /\ Len(merged_chunks) = 1

\* C7: every returned chunk carries a metadata entry that names its document
\* by the document's content hash.
C7_DocumentHashThreaded ==
    pc = "done" =>
        \A i \in 1..Len(merged_chunks) :
            /\ "metadata" \in merged_chunks[i].keys
            /\ "document_hash" \in DOMAIN merged_chunks[i].metadata
            /\ merged_chunks[i].metadata["document_hash"] = metadata.document_hash

\* The consecutive-paragraph rule is reached for the pair and a paragraph
\* number is no decimal integer.
NonNumericRuleCase(step) ==
    /\ step.kind \in {"merge", "flush", "raise"}
    /\ step.combined_tokens >= MIN_TOKENS
    /\ step.combined_tokens <= MAX_TOKENS
    /\ TokenCount(step.b[1].content) >= TINY_TOKENS
    /\ step.a[1].chunk_type = "DIRECTIVE"
    /\ step.b[1].chunk_type = "DIRECTIVE"
    /\ Truthy(GetParagraphNumber(step.a[1]))
    /\ Truthy(GetParagraphNumber(step.b[1]))
    /\ (~ PyInt(step.a[1].paragraph_number).ok \/ ~ PyInt(step.b[1].paragraph_number).ok)

\* C8: when the consecutive-paragraph rule meets a paragraph number that is no
\* base-10 integer, should_merge does not raise and answers False (the pair is
\* not merged), and merge_chunks goes on with the remaining chunks.
C8_NonNumericNotConsecutive ==
    /\ pc # "raised"
    /\ NonNumericRuleCase(last) =>
           /\ last.kind = "flush"
           /\ ~ last.raised
           /\ current_chunk = last.b
           /\ pc = "loop"

\* C8 witness: paragraph "iv" met the rule, was flushed, and a chunk remains.
C8_Witness ==
    /\ NonNumericRuleCase(last)
    /\ last.kind = "flush"
    /\ last.a[1].paragraph_number = <<"i", "v">>
    /\ idx <= Len(chunks)

----------------------------------------------------------------------------
(* Part II.  Token-level text helpers for the patterns of circular.py and
   rules.py.  A numeral is one token per digit and "." is a token of its own,
   so \d+\. is a run of digit tokens followed by the token ".".  A phrase a
   pattern matches as a whole ("This is issued", "No. IP/002/2018") is one
   token. *)

Min(S) == CHOOSE x \in S : \A y \in S : x <= y

RECURSIVE DigitRun(_, _)
\* the number of digit tokens of text from position i on
DigitRun(text, i) ==
    IF i <= Len(text) /\ text[i] \in Digits THEN 1 + DigitRun(text, i + 1) ELSE 0

RECURSIVE WsRun(_, _)
\* the number of white-space tokens of text from position i on
WsRun(text, i) ==
    IF i <= Len(text) /\ text[i] \in Whitespace THEN 1 + WsRun(text, i + 1) ELSE 0

\* \d+\. matches at position i
MarkerAt(text, i) ==
    LET n == DigitRun(text, i)
    IN  n >= 1 /\ i + n <= Len(text) /\ text[i + n] = "."

\* the position after that match
MarkerEnd(text, i) == i + DigitRun(text, i) + 1

\* re.findall / re.finditer over tokens: the positions of the matches, left
\* to right, among the positions M where a match starts, the next search
\* starting after a match (N[i] is the length of the match at i).
RECURSIVE Scan(_, _, _, _)
Scan(len, i, M, N) ==
    LET later == {m \in M : m >= i}
    IN  IF later = {} THEN <<>>
        ELSE <<Min(later)>> \o Scan(len, Min(later) + N[Min(later)], M, N)

----------------------------------------------------------------------------
(* chunking/circular.py: CircularProcessor._extract_references and
   _extract_context *)

\* Circular\s+No\.\s+(IBBI/[\w/]+)
CircularRefAt(text, i) == text[i] = "Circular No. IBBI/CIR/2017"
CircularRefGroup(text, i) == <<"IBBI/CIR/2017">>

SectionWords == {"Section", "section"}

\* [Ss]ection\s+(\d+(?:\s+read\s+with\s+section\s+\d+)?)
SectionRefAt(text, i) ==
    /\ text[i] \in SectionWords
    /\ WsRun(text, i + 1) >= 1
    /\ DigitRun(text, i + 1 + WsRun(text, i + 1)) >= 1

\* the length of the optional group (?:\s+read\s+with\s+section\s+\d+) at j
ReadWithLen(text, j) ==
    LET w1 == WsRun(text, j)
        k == j + w1
        w2 == WsRun(text, k + 1)
        n == DigitRun(text, k + 1 + w2)
    IN  IF w1 >= 1 /\ k <= Len(text) /\ text[k] = "read with section" /\ w2 >= 1 /\ n >= 1
        THEN w1 + 1 + w2 + n
        ELSE 0

SectionRefLen(text, i) ==
    LET w == WsRun(text, i + 1)
        n == DigitRun(text, i + 1 + w)
    IN  1 + w + n + ReadWithLen(text, i + 1 + w + n)

SectionRefGroup(text, i) ==
    SubSeq(text, i + 1 + WsRun(text, i + 1), i + SectionRefLen(text, i) - 1)

\* the length of the optional group (?:\s*\(\d+\)) at j
SubNumberLen(text, j) ==
    LET w == WsRun(text, j)
        n == DigitRun(text, j + w + 1)
    IN  IF /\ j + w <= Len(text) /\ text[j + w] = "("
           /\ n >= 1
           /\ j + w + 1 + n <= Len(text) /\ text[j + w + 1 + n] = ")"
        THEN w + 1 + n + 1
        ELSE 0

\* Regulation\s+(\d+(?:\s*\(\d+\))?)
RegulationRefAt(text, i) ==
    /\ text[i] = "Regulation"
    /\ WsRun(text, i + 1) >= 1
    /\ DigitRun(text, i + 1 + WsRun(text, i + 1)) >= 1

RegulationRefLen(text, i) ==
    LET w == WsRun(text, i + 1)
        n == DigitRun(text, i + 1 + w)
    IN  1 + w + n + SubNumberLen(text, i + 1 + w + n)

RegulationRefGroup(text, i) ==
    SubSeq(text, i + 1 + WsRun(text, i + 1), i + RegulationRefLen(text, i) - 1)

\* https?://[^\s\]]+
UrlAt(text, i) == text[i] = "https://ibbi.gov.in"
UrlGroup(text, i) == <<text[i]>>

CircularRefs(text) ==
    LET M == {i \in 1..Len(text) : CircularRefAt(text, i)}
        ps == Scan(Len(text), 1, M, [i \in M |-> 1])
    IN  [k \in 1..Len(ps) |-> CircularRefGroup(text, ps[k])]

SectionRefs(text) ==
    LET M == {i \in 1..Len(text) : SectionRefAt(text, i)}
        ps == Scan(Len(text), 1, M, [i \in M |-> SectionRefLen(text, i)])
    IN  [k \in 1..Len(ps) |-> SectionRefGroup(text, ps[k])]

RegulationRefs(text) ==
    LET M == {i \in 1..Len(text) : RegulationRefAt(text, i)}
        ps == Scan(Len(text), 1, M, [i \in M |-> RegulationRefLen(text, i)])
    IN  [k \in 1..Len(ps) |-> RegulationRefGroup(text, ps[k])]

UrlRefs(text) ==
    LET M == {i \in 1..Len(text) : UrlAt(text, i)}
        ps == Scan(Len(text), 1, M, [i \in M |-> 1])
    IN  [k \in 1..Len(ps) |-> UrlGroup(text, ps[k])]

CircularProcessor_extract_references(content) ==
    [circulars |-> CircularRefs(content),
     sections |-> SectionRefs(content),
     regulations |-> RegulationRefs(content),
     external_links |-> UrlRefs(content)]

\* the tokens whose lower-cased text contains "shall", "may", "subject to", "example"
ShallTokens == {"shall", "Shall"}
MayTokens == {"may", "May", "12[th] May,"}
SubjectToTokens == {"subject to", "Subject to"}
ExampleTokens == {"example", "Example", "examples"}

Contains(text, toks) == \E i \in 1..Len(text) : text[i] \in toks

\* \d{2}\.\d{2}\.\d{4}
DeadlineAt(text, i) ==
    /\ i + 9 <= Len(text)
    /\ \A k \in {0, 1, 3, 4, 6, 7, 8, 9} : text[i + k] \in Digits
    /\ text[i + 2] = "."
    /\ text[i + 5] = "."

Deadlines(text) ==
    LET M == {i \in 1..Len(text) : DeadlineAt(text, i)}
        ps == Scan(Len(text), 1, M, [i \in M |-> 10])
    IN  [k \in 1..Len(ps) |-> SubSeq(text, ps[k], ps[k] + 9)]

\* A dict with optional keys: the pairs <<key, present, value>> that are present.
DictOf(pairs) ==
    LET ks == {pairs[i][1] : i \in {j \in 1..Len(pairs) : pairs[j][2]}}
    IN  [k \in ks |-> pairs[CHOOSE i \in 1..Len(pairs) : pairs[i][1] = k][3]]

CircularProcessor_extract_context(content) ==
    LET deadlines == Deadlines(content)
    IN  DictOf(<<
            <<"directive_type", Contains(content, ShallTokens) \/ Contains(content, MayTokens),
              IF Contains(content, ShallTokens) THEN <<"mandatory">> ELSE <<"optional">> >>,
            <<"deadlines", deadlines # <<>>, deadlines>>,
            <<"has_conditions", Contains(content, SubjectToTokens), <<"true">> >>,
            <<"has_examples", Contains(content, ExampleTokens), <<"true">> >>
        >>)

----------------------------------------------------------------------------
(* CircularProcessor: sections and chunks *)

\* asdict(CircularChunk(...))
CircularChunk(id, type, pnum, content) ==
    [chunk_id |-> id, chunk_type |-> type, paragraph_number |-> pnum,
     content |-> content,
     references |-> CircularProcessor_extract_references(content),
     context |-> CircularProcessor_extract_context(content)]

SubjectTokens == {"**Subject: Filing of forms**"}
BoldEndTokens == SubjectTokens \cup {"**Insolvency and Bankruptcy Board of India**"}

\* \*\*(?:Sub(?:ject)?:.*?\*\*\n\n)(.*): the positions after a "**\n\n" that
\* follows a subject opener.
HeaderEnds(content) ==
    {j + 3 : j \in {j \in 1..Len(content) :
                       /\ content[j] \in BoldEndTokens
                       /\ j + 2 <= Len(content)
                       /\ content[j + 1] = NL
                       /\ content[j + 2] = NL
                       /\ \E i \in 1..j : content[i] \in SubjectTokens}}

_remove_header_section(content) ==
    LET ends == HeaderEnds(content)
    IN  IF ends = {} THEN content ELSE SubSeq(content, Min(ends), Len(content))

TerminalPhrases == {"This is issued", "Yours faithfully"}

\* (?=(?:\d+\.|This is issued|Yours faithfully)) at position e
DirectiveAnchorAt(text, e) ==
    e <= Len(text) /\ (MarkerAt(text, e) \/ text[e] \in TerminalPhrases)

DirectiveAnchorsFrom(text, e0) == {e \in e0..Len(text) : DirectiveAnchorAt(text, e)}

\* re.finditer(directive_pattern): the spans <<first, last>> of the matches
\* found from position pos on.
RECURSIVE DirectiveSpans(_, _)
DirectiveSpans(text, pos) ==
    LET starts == {st \in pos..Len(text) :
                      MarkerAt(text, st) /\ DirectiveAnchorsFrom(text, MarkerEnd(text, st)) # {}}
    IN  IF starts = {} THEN <<>>
        ELSE LET st == Min(starts)
                 e == Min(DirectiveAnchorsFrom(text, MarkerEnd(text, st)))
             IN  <<<<st, e - 1>>>> \o DirectiveSpans(text, e)

\* ^(.*?)(?=\d+\.): the span before the first marker, <<>> without a marker
ContextSpan(text) ==
    LET ms == {i \in 1..Len(text) : MarkerAt(text, i)}
    IN  IF ms = {} THEN <<>> ELSE <<<<1, Min(ms) - 1>>>>

\* (This is issued.*?$)
ClosingSpan(text) ==
    LET cs == {i \in 1..Len(text) : text[i] = "This is issued"}
    IN  IF cs = {} THEN <<>> ELSE <<<<Min(cs), Len(text)>>>>

SpanText(text, span) == Strip(SubSeq(text, span[1], span[2]))

_split_into_sections(content) ==
    LET ctx == ContextSpan(content)
        dirs == DirectiveSpans(content, 1)
        clo == ClosingSpan(content)
    IN  (IF ctx # <<>> /\ SpanText(content, ctx[1]) # <<>>
         THEN <<[type |-> "CONTEXT", text |-> SpanText(content, ctx[1]), span |-> ctx[1]]>>
         ELSE <<>>)
        \o [i \in 1..Len(dirs) |->
               [type |-> "DIRECTIVE", text |-> SpanText(content, dirs[i]), span |-> dirs[i]]]
        \o (IF clo # <<>>
            THEN <<[type |-> "CLOSING", text |-> SpanText(content, clo[1]), span |-> clo[1]]>>
            ELSE <<>>)

_process_context_section(content) ==
    <<CircularChunk(<<"context_1">>, "CONTEXT", NoneVal, content)>>

SubPointTokens == {"(a)", "(b)"}

\* re.match(r"(\d+)\.", content).group(1)
LeadingNumber(content) == SubSeq(content, 1, DigitRun(content, 1))

_process_directive_section(content) ==
    LET para_num == LeadingNumber(content)
    IN  IF Contains(content, SubPointTokens)
        THEN <<CircularChunk(<<"directive_">> \o para_num, "DIRECTIVE", para_num, content)>>
        ELSE <<CircularChunk(<<"para_">> \o para_num, "DIRECTIVE", para_num, content)>>

_process_closing_section(content) ==
    <<CircularChunk(<<"closing">>, "POWER_CITATION", NoneVal, content)>>

ProcessCircularSection(sec) ==
    CASE sec.type = "CONTEXT" -> _process_context_section(sec.text)
      [] sec.type = "DIRECTIVE" -> _process_directive_section(sec.text)
      [] sec.type = "CLOSING" -> _process_closing_section(sec.text)
      [] OTHER -> <<>>

RECURSIVE ConcatAll(_)
ConcatAll(ss) == IF ss = <<>> THEN <<>> ELSE Head(ss) \o ConcatAll(Tail(ss))

CircularProcessor_chunk_content(content) ==
    LET sections == _split_into_sections(_remove_header_section(content))
    IN  ConcatAll([i \in 1..Len(sections) |-> ProcessCircularSection(sections[i])])

----------------------------------------------------------------------------
(* CircularProcessor._extract_metadata *)

NoMatch == [ok |-> FALSE, group |-> NoneVal]
Match(g) == [ok |-> TRUE, group |-> g]

\* \*\*(.*?Board of India)\*\*  (no other bold run precedes the authority line)
AuthorityTokens == {"**Insolvency and Bankruptcy Board of India**"}

AuthoritySearch(text) ==
    IF Contains(text, AuthorityTokens)
    THEN Match(<<"Insolvency and Bankruptcy Board of India">>)
    ELSE NoMatch

\* The day-and-month part of a date and the date patterns (1..5, in the order
\* of the list) whose part before the year it matches.
DatePrefixPatterns(tok) ==
    CASE tok = "12[th] June," -> {1, 2, 3, 4, 5}
      [] tok = "1[st] April," -> {1, 2, 3, 4, 5}
      [] tok = "12[th] May," -> {1, 2, 3, 4, 5}
      [] tok = "12[th ] June," -> {2, 3, 4}
      [] tok = "12[th]June," -> {3, 4}
      [] tok = "12[th] Jun," -> {5}
      [] OTHER -> {}

\* the tokens that contain "No"
NoTokens == {"No. IP/002/2018", "No. LAD/CIR/18", "Circular No. IBBI/CIR/2017"}

\* date pattern k matches with its group starting at position i
DateAt(k, text, i) ==
    /\ k \in DatePrefixPatterns(text[i])
    /\ WsRun(text, i + 1) >= 1
    /\ DigitRun(text, i + 1 + WsRun(text, i + 1)) >= 4
    /\ (k = 3 => /\ i >= 3
                 /\ text[i - 1] \in Whitespace
                 /\ \E j \in 1..(i - 2) : text[j] \in NoTokens)

DateGroup(text, i) == SubSeq(text, i, i + WsRun(text, i + 1) + 4)

DateSearch(k, text) ==
    LET M == {i \in 1..Len(text) : DateAt(k, text, i)}
    IN  IF M = {} THEN NoMatch ELSE Match(DateGroup(text, Min(M)))

NumDatePatterns == 5

\* the circular-number patterns (1..7) a token matches, and the group
NumberPatterns(tok) ==
    CASE tok = "No. IP/002/2018" -> {1, 7}
      [] tok = "No. LAD/CIR/18" -> {7}
      [] tok = "Circular No. IBBI/CIR/2017" -> {7}
      [] OTHER -> {}

NumberGroup(tok) ==
    CASE tok = "No. IP/002/2018" -> <<"IP/002/2018">>
      [] tok = "No. LAD/CIR/18" -> <<"LAD/CIR/18">>
      [] tok = "Circular No. IBBI/CIR/2017" -> <<"IBBI/CIR/2017">>
      [] OTHER -> <<>>

NumberSearch(k, text) ==
    LET M == {i \in 1..Len(text) : k \in NumberPatterns(text[i])}
    IN  IF M = {} THEN NoMatch ELSE Match(NumberGroup(text[Min(M)]))

NumNumberPatterns == 7

\* Variant: the last pattern of the list that matches is taken.
FirstPatternMatch_MostPermissive(found) ==
    LET ks == {k \in 1..Len(found) : found[k].ok}
    IN  IF ks = {} THEN <<>> ELSE <<found[CHOOSE k \in ks : \A j \in ks : j <= k]>>

\* for pattern in list: if match := re.search(pattern, content): ...; break
\* The result of the first pattern 1..n that matches; <<>> when none does.
\* found[k] is re.search(patterns[k - 1], content).
FirstPatternMatch(found) ==
    LET ks == {k \in 1..Len(found) : found[k].ok}
    IN  IF ks = {} THEN <<>> ELSE <<found[Min(ks)]>>

\* \*\*(?:Sub(?:ject)?:)(.*?)\*\*(?=\n), group(1).strip()
SubjectSearch(text) ==
    IF \E i \in 1..(Len(text) - 1) : text[i] \in SubjectTokens /\ text[i + 1] = NL
    THEN Match(<<" ", "Filing of forms">>)
    ELSE NoMatch

\* (?:come into force|effect)\s+from\s+(\d{1,2}\[(?:st|nd|rd|th)\]\s+\w+(?:,)?\s+\d{4})
EffectiveDateAt(text, i) ==
    /\ text[i] \in {"effect from", "come into force from"}
    /\ WsRun(text, i + 1) >= 1
    /\ DateAt(5, text, i + 1 + WsRun(text, i + 1))

EffectiveDateSearch(text) ==
    LET M == {i \in 1..Len(text) : EffectiveDateAt(text, i)}
    IN  IF M = {} THEN NoMatch
        ELSE Match(DateGroup(text, Min(M) + 1 + WsRun(text, Min(M) + 1)))

\* (?:exercise of|under).*?(?:section|Section)\s+(\d+(?:\s+read\s+with\s+section\s+\d+)?)
PowerTokens == {"exercise of", "under"}

PowerReferenceSearch(text) ==
    LET M == {j \in 1..Len(text) :
                 SectionRefAt(text, j) /\ \E i \in 1..(j - 1) : text[i] \in PowerTokens}
    IN  IF M = {} THEN NoMatch ELSE Match(SectionRefGroup(text, Min(M)))

\* Page\s+\d+\s+of\s+(\d+), int(group(1))
TotalPagesSearch(text) ==
    IF Contains(text, {"Page 1 of 2"}) THEN Match(2) ELSE NoMatch

\* The `matches` dict: a key is present when the loop has assigned it.  The
\* "date" key is assigned only inside `if match := ...`; "circular_number"
\* gets None after its loop when no pattern matched.
CircularMatches(content) ==
    LET date == FirstPatternMatch([k \in 1..NumDatePatterns |-> DateSearch(k, content)])
        number == FirstPatternMatch([k \in 1..NumNumberPatterns |-> NumberSearch(k, content)])
    IN  DictOf(<<
            <<"authority", TRUE, AuthoritySearch(content)>>,
            <<"date", date # <<>>, IF date # <<>> THEN date[1] ELSE NoMatch>>,
            <<"circular_number", TRUE, IF number # <<>> THEN number[1] ELSE NoMatch>>,
            <<"subject", TRUE, SubjectSearch(content)>>,
            <<"effective_date", TRUE, EffectiveDateSearch(content)>>,
            <<"power_reference", TRUE, PowerReferenceSearch(content)>>,
            <<"total_pages", TRUE, TotalPagesSearch(content)>>
        >>)

\* matches[key].group(1) if matches[key] else default
GroupOr(m, default) == IF m.ok THEN m.group ELSE default

Raised(exc) == [raised |-> exc, value |-> NoneVal]
Returned(v) == [raised |-> "", value |-> v]

\* _extract_metadata(content, file_path, doc_hash); now is datetime.now()
CircularProcessor_extract_metadata(content, file_name, doc_hash, now) ==
    LET matches == CircularMatches(content)
    IN  IF "date" \notin DOMAIN matches THEN Raised("KeyError")
        ELSE Returned(
            [authority |-> GroupOr(matches["authority"], <<>>),
             circular_number |-> GroupOr(matches["circular_number"], <<>>),
             date |-> GroupOr(matches["date"], <<>>),
             subject |-> Strip(GroupOr(matches["subject"], <<>>)),
             total_pages |-> GroupOr(matches["total_pages"], NoneVal),
             reference_circulars |-> CircularRefs(content),
             effective_date |-> GroupOr(matches["effective_date"], NoneVal),
             power_reference |-> GroupOr(matches["power_reference"], NoneVal),
             file_name |-> file_name,
             processing_timestamp |-> now,
             document_hash |-> doc_hash])

----------------------------------------------------------------------------
(* chunking/rules.py: the text of a notification.  Punctuation marks and
   digits are tokens of their own, a word or a phrase of letters and single
   blanks is one token.  A character outside ASCII is written by its code
   point: "<U+2014>" is the em dash, "<U+0905 U+0938>" a word in Devanagari
   script. *)

Max(S) == CHOOSE x \in S : \A y \in S : x >= y

EmDash == "<U+2014>"
Bullet == "<U+2022>"
Degree == "<U+00B0>"

\* the tokens of characters in U+0900..U+097F
HindiTokens == {"<U+0905 U+0938>", "<U+0928 U+092E>"}

\* the tokens of characters outside ASCII, Devanagari and white space
SymbolTokens == {EmDash, Bullet, Degree}

\* len(token)
TokenLen(tok) ==
    CASE tok \in SymbolTokens -> 1
      [] tok \in HindiTokens -> 2
      [] OTHER -> Len(tok)

\* len(s)
RECURSIVE CharLen(_)
CharLen(s) == IF s = <<>> THEN 0 ELSE TokenLen(Head(s)) + CharLen(Tail(s))

\* the concatenation of pieces[lo], ..., pieces[hi]
RECURSIVE Flatten(_, _, _)
Flatten(pieces, lo, hi) ==
    IF lo > hi THEN <<>>
    ELSE IF lo = hi THEN pieces[lo]
    ELSE Flatten(pieces, lo, (lo + hi) \div 2)
         \o Flatten(pieces, (lo + hi) \div 2 + 1, hi)

\* re.sub over tokens: pieces[i] is what the substitution leaves of token i
Rewrite(pieces) == Flatten(pieces, 1, Len(pieces))

\* the number of white-space tokens right before position i
RECURSIVE WsBack(_, _)
WsBack(text, i) ==
    IF i > 1 /\ text[i - 1] \in Whitespace THEN 1 + WsBack(text, i - 1) ELSE 0

\* re.sub(r"[^\x00-\x7F\u0900-\u097F\s]", "", content)
RemoveUnusualCharacters(content) == SelectSeq(content, LAMBDA t : t \notin SymbolTokens)

\* the `replacements` dict: old -> new
OcrReplacement(tok) ==
    CASE tok = Bullet -> <<>>
      [] tok = Degree -> <<"degrees">>
      [] OTHER -> <<tok>>

\* for old, new in replacements.items(): content = content.replace(old, new)
ReplaceOcrSymbols(content) ==
    Rewrite([i \in 1..Len(content) |-> OcrReplacement(content[i])])

\* the length of the match of open \s* close at position i, 0 without a match
EmptyPairLen(text, i, open, close) ==
    LET w == WsRun(text, i + 1)
    IN  IF text[i] = open /\ i + 1 + w <= Len(text) /\ text[i + 1 + w] = close
        THEN w + 2
        ELSE 0

\* position i lies in a match of open \s* close
InEmptyPair(text, i, open, close) ==
    LET j == IF text[i] = open THEN i ELSE i - WsBack(text, i) - 1
    IN  j >= 1 /\ EmptyPairLen(text, j, open, close) > i - j

\* re.sub(r"\[\s*\]", "", content) and re.sub(r"\(\s*\)", "", content)
RemoveEmptyPairs(text, open, close) ==
    Rewrite([i \in 1..Len(text) |->
                IF InEmptyPair(text, i, open, close) THEN <<>> ELSE <<text[i]>>])

_clean_ocr_artifacts(content) ==
    LET ascii == RemoveUnusualCharacters(content)
        replaced == ReplaceOcrSymbols(ascii)
        brackets == RemoveEmptyPairs(replaced, "[", "]")
    IN  RemoveEmptyPairs(brackets, "(", ")")

\* Variant: the Hindi characters are left in place.
RemoveHindi_Keep(content) == content

\* re.sub(r"[\u0900-\u097F]+", "", content)
RemoveHindi(content) == SelectSeq(content, LAMBDA t : t \notin HindiTokens)

\* re.sub(r"\s+", " ", content)
CollapseWhitespace(text) ==
    Rewrite([i \in 1..Len(text) |->
                IF text[i] \notin Whitespace THEN <<text[i]>>
                ELSE IF WsBack(text, i) = 0 THEN <<" ">>
                ELSE <<>>])

\* the line breaks of the white-space run that position i lies in
RunLineBreaks(text, i) ==
    LET a == i - WsBack(text, i)
    IN  {q \in a..(a + WsRun(text, a) - 1) : text[q] = NL}

\* re.sub(r"\n\s*\n", "\n\n", content): from the first to the last line break
\* of a white-space run
CollapseBlankLines(text) ==
    Rewrite([i \in 1..Len(text) |->
                IF text[i] \notin Whitespace THEN <<text[i]>>
                ELSE LET nls == RunLineBreaks(text, i)
                     IN  IF nls = {} \/ Min(nls) = Max(nls) \/ i < Min(nls) \/ i > Max(nls)
                         THEN <<text[i]>>
                         ELSE IF i = Min(nls) THEN <<NL, NL>> ELSE <<>>])

\* [.,;:)]
ClosePunctuation == {".", ",", ";", ":", ")"}

\* re.sub(r"\s+([.,;:)])", r"\1", content)
TightenBeforePunctuation(text) ==
    Rewrite([i \in 1..Len(text) |->
                IF /\ text[i] \in Whitespace
                   /\ i + WsRun(text, i) <= Len(text)
                   /\ text[i + WsRun(text, i)] \in ClosePunctuation
                THEN <<>>
                ELSE <<text[i]>>])

\* re.sub(r"(\()\s+", r"\1", content)
TightenAfterParenthesis(text) ==
    Rewrite([i \in 1..Len(text) |->
                IF /\ text[i] \in Whitespace
                   /\ i - WsBack(text, i) - 1 >= 1
                   /\ text[i - WsBack(text, i) - 1] = "("
                THEN <<>>
                ELSE <<text[i]>>])

\* re.sub(r"_+", "", content)
RemoveUnderscores(content) == SelectSeq(content, LAMBDA t : t # "_")

\* the number of "-" characters of a token of hyphens
HyphenCount(tok) == CASE tok = "-" -> 1 [] tok = "--" -> 2 [] OTHER -> 0

\* the number of hyphen tokens right before position i
RECURSIVE HyphenBack(_, _)
HyphenBack(text, i) ==
    IF i > 1 /\ HyphenCount(text[i - 1]) > 0 THEN 1 + HyphenBack(text, i - 1) ELSE 0

\* the number of "-" characters of the run of hyphens from position i on
RECURSIVE HyphenChars(_, _)
HyphenChars(text, i) ==
    IF i <= Len(text) /\ HyphenCount(text[i]) > 0
    THEN HyphenCount(text[i]) + HyphenChars(text, i + 1)
    ELSE 0

\* re.sub(r"-{2,}", EM DASH, content)
FixDashes(text) ==
    Rewrite([i \in 1..Len(text) |->
                IF HyphenCount(text[i]) = 0 \/ HyphenChars(text, i - HyphenBack(text, i)) < 2
                THEN <<text[i]>>
                ELSE IF HyphenBack(text, i) = 0 THEN <<EmDash>> ELSE <<>>])

\* the number of "." tokens from position i on, and right before position i
RECURSIVE DotRun(_, _)
DotRun(text, i) == IF i <= Len(text) /\ text[i] = "." THEN 1 + DotRun(text, i + 1) ELSE 0

RECURSIVE DotBack(_, _)
DotBack(text, i) == IF i > 1 /\ text[i - 1] = "." THEN 1 + DotBack(text, i - 1) ELSE 0

\* re.sub(r"\.{2,}", "...", content)
FixEllipsis(text) ==
    Rewrite([i \in 1..Len(text) |->
                IF text[i] # "." \/ DotBack(text, i) + DotRun(text, i) < 2
                THEN <<text[i]>>
                ELSE IF DotBack(text, i) = 0 THEN <<"...">> ELSE <<>>])

\* the tokens that end in a full stop
FullStopTokens == {".", "..."}

\* the tokens that start with a letter A-Z
UpperInitial ==
    {"G", "S", "R", "E", "F. No", "REGD. NO. D. L", "No", "NEW DELHI", "FRIDAY",
     "MARCH", "PHALGUNA", "MINISTRY OF CORPORATE AFFAIRS", "NOTIFICATION",
     "New Delhi", "March", "In exercise of the powers", "Companies", "Act",
     "Rules", "Rule", "Short title", "These rules may be called", "In", "Note",
     "The"}

\* re.sub(r"\.(?=[A-Z])", ". ", content)
SpaceAfterFullStop(text) ==
    Rewrite([i \in 1..Len(text) |->
                IF /\ text[i] \in FullStopTokens
                   /\ i + 1 <= Len(text)
                   /\ text[i + 1] \in UpperInitial
                THEN <<text[i], " ">>
                ELSE <<text[i]>>])

\* The two substitutions of "." by "." between G, S and R change nothing.
_clean_english_content(content) ==
    LET no_hindi == RemoveHindi(content)
        spaces == CollapseBlankLines(CollapseWhitespace(no_hindi))
        punct == TightenAfterParenthesis(TightenBeforePunctuation(spaces))
        marks == FixEllipsis(FixDashes(RemoveUnderscores(punct)))
        stops == SpaceAfterFullStop(marks)
    IN  Strip(CollapseWhitespace(stops))

\* is_bilingual(text): re.search(r"[\u0900-\u097F]+", text)
is_bilingual(text) == \E i \in 1..Len(text) : text[i] \in HindiTokens

\* G\.S\.R\. at position i
GsrAt(text, i) ==
    /\ i + 5 <= Len(text)
    /\ SubSeq(text, i, i + 5) = <<"G", ".", "S", ".", "R", ".">>

\* english_markers: a token that starts with "MINISTRY OF CORPORATE AFFAIRS",
\* "MINISTRY OF", "NOTIFICATION" or "In exercise of the powers", or "G.S.R."
EnglishMarkerTokens ==
    {"MINISTRY OF CORPORATE AFFAIRS", "NOTIFICATION", "In exercise of the powers"}

EnglishMarkerAt(text, i) == text[i] \in EnglishMarkerTokens \/ GsrAt(text, i)

\* Variant: the bilingual text is cleaned whole, not cut at the first marker.
_extract_english_content_WholeText(raw) ==
    LET content == _clean_ocr_artifacts(raw)
        start_positions == {i \in 1..Len(content) : EnglishMarkerAt(content, i)}
    IN  IF ~is_bilingual(content) THEN Returned(_clean_english_content(content))
        ELSE IF start_positions = {} THEN Raised("ValueError")
        ELSE Returned(_clean_english_content(content))

_extract_english_content(raw) ==
    LET content == _clean_ocr_artifacts(raw)
        start_positions == {i \in 1..Len(content) : EnglishMarkerAt(content, i)}
    IN  IF ~is_bilingual(content) THEN Returned(_clean_english_content(content))
        ELSE IF start_positions = {} THEN Raised("ValueError")
        ELSE Returned(_clean_english_content(
                 SubSeq(content, Min(start_positions), Len(content))))

----------------------------------------------------------------------------
(* NotificationProcessor._extract_metadata *)

\* the first position of S, 0 when S is empty
FirstOf(S) == IF S = {} THEN 0 ELSE Min(S)

\* REGD\. NO\. D\. L\.-(\d+/\d+)
RegistryAt(text, i) ==
    LET n == DigitRun(text, i + 3)
    IN  /\ i + 2 <= Len(text)
        /\ text[i] = "REGD. NO. D. L" /\ text[i + 1] = "." /\ text[i + 2] = "-"
        /\ n >= 1
        /\ i + 3 + n <= Len(text) /\ text[i + 3 + n] = "/"
        /\ DigitRun(text, i + 4 + n) >= 1

RegistrySearch(text) ==
    LET i == FirstOf({i \in 1..Len(text) : RegistryAt(text, i)})
        n == DigitRun(text, i + 3)
    IN  IF i = 0 THEN NoMatch
        ELSE Match(SubSeq(text, i + 3, i + 3 + n + DigitRun(text, i + 4 + n)))

\* the tokens that end in "No"
NumberWords == {"No", "F. No"}

\* No\.\s+(\d+)\]
GazetteAt(text, i) ==
    LET w == WsRun(text, i + 2)
        n == DigitRun(text, i + 2 + w)
    IN  /\ i + 1 <= Len(text)
        /\ text[i] \in NumberWords /\ text[i + 1] = "."
        /\ w >= 1 /\ n >= 1
        /\ i + 2 + w + n <= Len(text) /\ text[i + 2 + w + n] = "]"

GazetteSearch(text) ==
    LET i == FirstOf({i \in 1..Len(text) : GazetteAt(text, i)})
        w == WsRun(text, i + 2)
    IN  IF i = 0 THEN NoMatch
        ELSE Match(SubSeq(text, i + 2 + w, i + 1 + w + DigitRun(text, i + 2 + w)))

\* the positions from p on where \d{4} matches
YearsFrom(text, p) == {q \in p..Len(text) : DigitRun(text, q) >= 4}

\* NEW DELHI,\s+(.*?)(?=\d{4})\d{4}, group(1).strip()
PublicationDateAt(text, i) ==
    LET w == WsRun(text, i + 2)
    IN  /\ i + 1 <= Len(text)
        /\ text[i] = "NEW DELHI" /\ text[i + 1] = ","
        /\ w >= 1
        /\ YearsFrom(text, i + 2 + w) # {}

PublicationDateSearch(text) ==
    LET i == FirstOf({i \in 1..Len(text) : PublicationDateAt(text, i)})
        p == i + 2 + WsRun(text, i + 2)
    IN  IF i = 0 THEN NoMatch
        ELSE Match(SubSeq(text, p, Min(YearsFrom(text, p)) - 1))

\* the last position of text that is not white space, 0 when there is none
LastInk(text) ==
    LET S == {e \in 1..Len(text) : text[e] \notin Whitespace}
    IN  IF S = {} THEN 0 ELSE Max(S)

\* the end of the group of /([^/\n]+?)(?=\s*$) for the "/" at position i
IndianDateEnd(text, i) == IF LastInk(text) > i THEN LastInk(text) ELSE i + 1

IndianDateAt(text, i) ==
    /\ text[i] = "/"
    /\ i + 1 <= Len(text)
    /\ \A k \in (i + 1)..IndianDateEnd(text, i) : text[k] \notin {"/", NL}

IndianDateSearch(text) ==
    LET i == FirstOf({i \in 1..Len(text) : IndianDateAt(text, i)})
    IN  IF i = 0 THEN NoMatch
        ELSE Match(SubSeq(text, i + 1, IndianDateEnd(text, i)))

\* the tokens that start with "MINISTRY OF" and go on
MinistryTokens == {"MINISTRY OF CORPORATE AFFAIRS"}

\* the positions from p on of a line break
LineBreaksFrom(text, p) == {q \in p..Len(text) : text[q] = NL}

\* MINISTRY OF[^\n]+, group(0)
MinistrySearch(text) ==
    LET i == FirstOf({i \in 1..Len(text) : text[i] \in MinistryTokens})
        e == IF LineBreaksFrom(text, i) = {} THEN Len(text)
             ELSE Min(LineBreaksFrom(text, i)) - 1
    IN  IF i = 0 THEN NoMatch ELSE Match(SubSeq(text, i, e))

\* the tokens of one letter A-Z
UpperLetters == {"E", "F", "G", "R", "S"}

\* G\.S\.R\.\s+(\d+)\([A-Z]\)
NotificationNumberAt(text, i) ==
    LET w == WsRun(text, i + 6)
        n == DigitRun(text, i + 6 + w)
        j == i + 6 + w + n
    IN  /\ GsrAt(text, i)
        /\ w >= 1 /\ n >= 1
        /\ j + 2 <= Len(text)
        /\ text[j] = "(" /\ text[j + 1] \in UpperLetters /\ text[j + 2] = ")"

NotificationNumberLen(text, i) ==
    6 + WsRun(text, i + 6) + DigitRun(text, i + 6 + WsRun(text, i + 6)) + 3

NotificationNumberSearch(text) ==
    LET i == FirstOf({i \in 1..Len(text) : NotificationNumberAt(text, i)})
        w == WsRun(text, i + 6)
    IN  IF i = 0 THEN NoMatch
        ELSE Match(SubSeq(text, i + 6 + w, i + 5 + w + DigitRun(text, i + 6 + w)))

\* New Delhi,\s+the\s+(.*?)(?=\n): the numbers of white-space tokens the second
\* \s+ can take, at the "the" at position t, so that a line break follows
NotificationDateTakes(text, t) ==
    {k \in 1..WsRun(text, t + 1) : LineBreaksFrom(text, t + 1 + k) # {}}

NotificationDateAt(text, i) ==
    LET w == WsRun(text, i + 2)
        t == i + 2 + w
    IN  /\ i + 1 <= Len(text)
        /\ text[i] = "New Delhi" /\ text[i + 1] = ","
        /\ w >= 1
        /\ t <= Len(text) /\ text[t] = "the"
        /\ NotificationDateTakes(text, t) # {}

NotificationDateSearch(text) ==
    LET i == FirstOf({i \in 1..Len(text) : NotificationDateAt(text, i)})
        t == i + 2 + WsRun(text, i + 2)
        p == t + 1 + Max(NotificationDateTakes(text, t))
    IN  IF i = 0 THEN NoMatch
        ELSE Match(SubSeq(text, p, Min(LineBreaksFrom(text, p)) - 1))

\* the positions from p on of a ","
CommasFrom(text, p) == {q \in p..Len(text) : text[q] = ","}

\* to amend the ([^,]+),\s*(\d{4}): the phrase, a blank, and the group up to
\* the next ","
AmendmentReferenceAt(text, i) ==
    /\ i + 1 <= Len(text)
    /\ text[i] = "to amend the" /\ text[i + 1] = " "
    /\ CommasFrom(text, i + 2) # {}
    /\ LET c == Min(CommasFrom(text, i + 2))
       IN  c > i + 2 /\ DigitRun(text, c + 1 + WsRun(text, c + 1)) >= 4

AmendmentReferenceSearch(text) ==
    LET i == FirstOf({i \in 1..Len(text) : AmendmentReferenceAt(text, i)})
        c == Min(CommasFrom(text, i + 2))
        y == c + 1 + WsRun(text, c + 1)
    IN  IF i = 0 THEN NoMatch
        ELSE Match([amended_rule |-> SubSeq(text, i + 2, c - 1),
                    year |-> SubSeq(text, y, y + 3)])

\* matches = {key: re.search(pattern, content, re.DOTALL) for key, pattern in patterns.items()}
NotificationMatches(content) ==
    DictOf(<<
        <<"registry_number", TRUE, RegistrySearch(content)>>,
        <<"gazette_number", TRUE, GazetteSearch(content)>>,
        <<"publication_date", TRUE, PublicationDateSearch(content)>>,
        <<"indian_date", TRUE, IndianDateSearch(content)>>,
        <<"ministry", TRUE, MinistrySearch(content)>>,
        <<"notification_number", TRUE, NotificationNumberSearch(content)>>,
        <<"notification_date", TRUE, NotificationDateSearch(content)>>,
        <<"amendment_reference", TRUE, AmendmentReferenceSearch(content)>>
    >>)

\* _extract_metadata(content, file_path, doc_hash); now is datetime.now()
NotificationProcessor_extract_metadata(content, file_name, doc_hash, now) ==
    LET matches == NotificationMatches(content)
    IN  IF \E key \in {"registry_number", "gazette_number", "publication_date",
                       "indian_date", "ministry", "notification_number",
                       "notification_date"} : key \notin DOMAIN matches
        THEN Raised("KeyError")
        ELSE Returned(
            [registry_number |-> GroupOr(matches["registry_number"], <<>>),
             gazette_number |-> GroupOr(matches["gazette_number"], <<>>),
             publication_date |-> IF matches["publication_date"].ok
                                  THEN Strip(matches["publication_date"].group)
                                  ELSE <<>>,
             indian_date |-> GroupOr(matches["indian_date"], <<>>),
             ministry |-> GroupOr(matches["ministry"], <<>>),
             notification_number |-> GroupOr(matches["notification_number"], <<>>),
             notification_date |-> GroupOr(matches["notification_date"], <<>>),
             amendment_details |->
                 IF "amendment_reference" \in DOMAIN matches
                    /\ matches["amendment_reference"].ok
                 THEN matches["amendment_reference"].group
                 ELSE NoneVal,
             file_name |-> file_name,
             processing_timestamp |-> now,
             document_hash |-> doc_hash])

----------------------------------------------------------------------------
(* NotificationProcessor._extract_references and _extract_context *)

\* the tokens that match [A-Z][a-z]+ as a whole
CapitalisedWords == {"Companies", "Act", "Rules", "March", "Note", "They", "In", "The"}

\* the start positions of the words of [A-Z][a-z]+(?:\s+[A-Z][a-z]+)* from i on
RECURSIVE CapitalisedChain(_, _)
CapitalisedChain(text, i) ==
    LET w == WsRun(text, i + 1)
        j == i + 1 + w
    IN  IF i > Len(text) \/ text[i] \notin CapitalisedWords THEN {}
        ELSE {i} \cup (IF w >= 1 /\ j <= Len(text) THEN CapitalisedChain(text, j) ELSE {})

\* Act,\s+\d{4} at position j
ActTailAt(text, j) ==
    /\ j + 1 <= Len(text)
    /\ text[j] = "Act" /\ text[j + 1] = ","
    /\ WsRun(text, j + 2) >= 1
    /\ DigitRun(text, j + 2 + WsRun(text, j + 2)) >= 4

\* the positions of "Act" that end a match starting at i
ActEnds(text, i) == {j \in CapitalisedChain(text, i) : j > i /\ ActTailAt(text, j)}

\* (?:the\s+)?([A-Z][a-z]+(?:\s+[A-Z][a-z]+)*\s+Act,\s+\d{4})
ActAt(text, i) == ActEnds(text, i) # {}

ActLen(text, i) ==
    LET j == Max(ActEnds(text, i))
    IN  (j - i) + 2 + WsRun(text, j + 2) + 4

ActRefs(text) ==
    LET M == {i \in 1..Len(text) : ActAt(text, i)}
        ps == Scan(Len(text), 1, M, [i \in M |-> ActLen(text, i)])
    IN  [k \in 1..Len(ps) |-> SubSeq(text, ps[k], ps[k] + ActLen(text, ps[k]) - 1)]

ReadWithWords == {"read with section", "read with Section"}

\* the length of the optional group (?:\s+read\s+with\s+[Ss]ection\s+\d+) at j
ReadWithSectionLen(text, j) ==
    LET w1 == WsRun(text, j)
        k == j + w1
        w2 == WsRun(text, k + 1)
        n == DigitRun(text, k + 1 + w2)
    IN  IF w1 >= 1 /\ k <= Len(text) /\ text[k] \in ReadWithWords /\ w2 >= 1 /\ n >= 1
        THEN w1 + 1 + w2 + n
        ELSE 0

\* [Ss]ection\s+(\d+(?:\s+read\s+with\s+[Ss]ection\s+\d+)?)
NotificationSectionLen(text, i) ==
    LET w == WsRun(text, i + 1)
        n == DigitRun(text, i + 1 + w)
    IN  1 + w + n + ReadWithSectionLen(text, i + 1 + w + n)

NotificationSectionRefs(text) ==
    LET M == {i \in 1..Len(text) : SectionRefAt(text, i)}
        ps == Scan(Len(text), 1, M, [i \in M |-> NotificationSectionLen(text, i)])
    IN  [k \in 1..Len(ps) |->
            SubSeq(text, ps[k] + 1 + WsRun(text, ps[k] + 1),
                   ps[k] + NotificationSectionLen(text, ps[k]) - 1)]

\* the tokens that end in "rule" or "Rule"
RuleWords == {"rule", "Rule"}

\* [Rr]ule\s+(\d+(?:\s*\(\d+\))?)
RuleRefAt(text, i) ==
    /\ text[i] \in RuleWords
    /\ WsRun(text, i + 1) >= 1
    /\ DigitRun(text, i + 1 + WsRun(text, i + 1)) >= 1

RuleRefLen(text, i) ==
    LET w == WsRun(text, i + 1)
        n == DigitRun(text, i + 1 + w)
    IN  1 + w + n + SubNumberLen(text, i + 1 + w + n)

RuleRefs(text) ==
    LET M == {i \in 1..Len(text) : RuleRefAt(text, i)}
        ps == Scan(Len(text), 1, M, [i \in M |-> RuleRefLen(text, i)])
    IN  [k \in 1..Len(ps) |->
            SubSeq(text, ps[k] + 1 + WsRun(text, ps[k] + 1),
                   ps[k] + RuleRefLen(text, ps[k]) - 1)]

\* G\.S\.R\.\s+\d+\([A-Z]\), the whole match
NotificationRefs(text) ==
    LET M == {i \in 1..Len(text) : NotificationNumberAt(text, i)}
        ps == Scan(Len(text), 1, M, [i \in M |-> NotificationNumberLen(text, i)])
    IN  [k \in 1..Len(ps) |->
            SubSeq(text, ps[k], ps[k] + NotificationNumberLen(text, ps[k]) - 1)]

OrdinalSuffixes == {"st", "nd", "rd", "th"}

\* the tokens of characters of \w only
WordTokens ==
    Digits \cup OrdinalSuffixes \cup UpperLetters
    \cup {"FRIDAY", "MARCH", "PHALGUNA", "NOTIFICATION", "degrees", "rest", "means", "hereof", "under",
          "March", "Companies", "Act", "Rules", "of", "the", "by", "rule", "Rule",
          "section", "Section", "dated", "namely", "No", "Note", "They", "In", "The"}

\* the number of tokens of \w+ from position i on
RECURSIVE WordRun(_, _)
WordRun(text, i) ==
    IF i <= Len(text) /\ text[i] \in WordTokens THEN 1 + WordRun(text, i + 1) ELSE 0

\* the length of the optional (?:st|nd|rd|th) at position j
OrdinalLen(text, j) == IF j <= Len(text) /\ text[j] \in OrdinalSuffixes THEN 1 ELSE 0

\* the length of the match of \s+\w+,\s+\d{4} at position j, 0 without a match
MonthYearLen(text, j) ==
    LET w1 == WsRun(text, j)
        m == WordRun(text, j + w1)
        c == j + w1 + m
        w2 == WsRun(text, c + 1)
    IN  IF /\ w1 >= 1 /\ m >= 1
           /\ c <= Len(text) /\ text[c] = ","
           /\ w2 >= 1
           /\ DigitRun(text, c + 1 + w2) >= 4
        THEN w1 + m + 1 + w2 + 4
        ELSE 0

\* the length of the match of \d{1,2}(?:st|nd|rd|th)?\s+\w+,\s+\d{4} at i, 0
\* without a match
DayMonthYearLen(text, i) ==
    LET d == DigitRun(text, i)
        o == OrdinalLen(text, i + d)
    IN  IF d \in {1, 2} /\ MonthYearLen(text, i + d + o) > 0
        THEN d + o + MonthYearLen(text, i + d + o)
        ELSE 0

DateRefs(text) ==
    LET M == {i \in 1..Len(text) : DayMonthYearLen(text, i) > 0}
        ps == Scan(Len(text), 1, M, [i \in M |-> DayMonthYearLen(text, i)])
    IN  [k \in 1..Len(ps) |-> SubSeq(text, ps[k], ps[k] + DayMonthYearLen(text, ps[k]) - 1)]

\* the length of the match of dated\s+the\s+\d+(?:st|nd|rd|th)?\s+\w+,\s+\d{4}
\* at i, 0 without a match
AmendmentLen(text, i) ==
    LET w1 == WsRun(text, i + 1)
        t == i + 1 + w1
        w2 == WsRun(text, t + 1)
        p == t + 1 + w2
        d == DigitRun(text, p)
        o == OrdinalLen(text, p + d)
    IN  IF /\ text[i] = "dated" /\ w1 >= 1
           /\ t <= Len(text) /\ text[t] = "the"
           /\ w2 >= 1 /\ d >= 1
           /\ MonthYearLen(text, p + d + o) > 0
        THEN 1 + w1 + 1 + w2 + d + o + MonthYearLen(text, p + d + o)
        ELSE 0

AmendmentRefs(text) ==
    LET M == {i \in 1..Len(text) : AmendmentLen(text, i) > 0}
        ps == Scan(Len(text), 1, M, [i \in M |-> AmendmentLen(text, i)])
    IN  [k \in 1..Len(ps) |-> SubSeq(text, ps[k], ps[k] + AmendmentLen(text, ps[k]) - 1)]

NotificationProcessor_extract_references(content) ==
    [acts |-> ActRefs(content),
     sections |-> NotificationSectionRefs(content),
     rules |-> RuleRefs(content),
     notifications |-> NotificationRefs(content),
     amendments |-> AmendmentRefs(content)]

\* the tokens that contain the phrases _extract_context looks for
ShortTitleTokens == {"Short title"}
SubstitutedTokens == {"shall be substituted"}
OmittedTokens == {"shall be omitted"}
InsertedTokens == {"shall be inserted"}
\* means|shall mean|defined as, in content.lower()
DefinitionTokens == {"means", "shall mean", "defined as"}
\* provided that|subject to, in content.lower()
ConditionTokens == {"provided that", "Provided that", "subject to"}

\* the value of context["type"], <<>> when no phrase is found
ContextType(content) ==
    IF Contains(content, ShortTitleTokens) THEN <<<<"title_and_commencement">>>>
    ELSE IF Contains(content, SubstitutedTokens) THEN <<<<"amendment_substitution">>>>
    ELSE IF Contains(content, OmittedTokens) THEN <<<<"amendment_omission">>>>
    ELSE IF Contains(content, InsertedTokens) THEN <<<<"amendment_insertion">>>>
    ELSE <<>>

NotificationProcessor_extract_context(content) ==
    LET type == ContextType(content)
        dates == DateRefs(content)
    IN  DictOf(<<
            <<"type", type # <<>>, IF type # <<>> THEN type[1] ELSE <<>> >>,
            <<"dates", dates # <<>>, dates>>,
            <<"is_definition", Contains(content, DefinitionTokens), <<"true">> >>,
            <<"has_conditions", Contains(content, ConditionTokens), <<"true">> >>
        >>)

----------------------------------------------------------------------------
(* NotificationProcessor: sections and chunks *)

\* self.min_chunk_size
min_chunk_size == 100

\* asdict(NotificationChunk(...))
NotificationChunk(id, type, rule_number, sub_rule_number, content) ==
    [chunk_id |-> id, chunk_type |-> type, rule_number |-> rule_number,
     sub_rule_number |-> sub_rule_number, content |-> content,
     references |-> NotificationProcessor_extract_references(content),
     context |-> NotificationProcessor_extract_context(content)]

\* namely:<U+2014> at position j
NamelyAt(text, j) ==
    /\ j + 2 <= Len(text)
    /\ text[j] = "namely" /\ text[j + 1] = ":" /\ text[j + 2] = EmDash

\* \[F\. No\. at position i
FileNumberAt(text, i) ==
    /\ i + 2 <= Len(text)
    /\ text[i] = "[" /\ text[i + 1] = "F. No" /\ text[i + 2] = "."

\* (G\.S\.R\..*?namely:<U+2014>): the span of group(1), <<>> without a match
PreambleSpan(text) ==
    LET starts == {i \in 1..Len(text) :
                      GsrAt(text, i) /\ \E j \in (i + 6)..Len(text) : NamelyAt(text, j)}
    IN  IF starts = {} THEN <<>>
        ELSE LET i == Min(starts)
                 j == Min({j \in (i + 6)..Len(text) : NamelyAt(text, j)})
             IN  <<<<i, j + 2>>>>

\* the position where the group of the rules pattern starts, for the
\* "namely:<U+2014>" at position j
RulesStart(text, j) == j + 3 + WsRun(text, j + 3)

\* (?:namely:<U+2014>\s*)((?:\d+\..*?)(?=\[F\. No\.|$)): the span of group(1)
RulesSpan(text) ==
    LET starts == {j \in 1..Len(text) : NamelyAt(text, j) /\ MarkerAt(text, RulesStart(text, j))}
    IN  IF starts = {} THEN <<>>
        ELSE LET m == RulesStart(text, Min(starts))
                 ends == {e \in MarkerEnd(text, m)..Len(text) : FileNumberAt(text, e)}
             IN  <<<<m, IF ends = {} THEN Len(text) ELSE Min(ends) - 1>>>>

\* (\[F\. No\..*?(?:Note\s*:.*?)?)\s*$: the span of group(1)
NotificationClosingSpan(text) ==
    LET starts == {i \in 1..Len(text) : FileNumberAt(text, i)}
    IN  IF starts = {} THEN <<>> ELSE <<<<Min(starts), LastInk(text)>>>>

\* re.split(r"(?=\d+\.(?:\s*\(\d+\))?)", rules_content): the pieces between
\* the positions where \d+\. matches, the piece before the first one included
RECURSIVE SplitAt(_, _, _)
SplitAt(text, from, points) ==
    LET later == {p \in points : p > from}
    IN  IF later = {} THEN <<SubSeq(text, from, Len(text))>>
        ELSE <<SubSeq(text, from, Min(later) - 1)>> \o SplitAt(text, Min(later), points)

RuleSplits(rules_content) ==
    SplitAt(rules_content, 1, {p \in 1..Len(rules_content) : MarkerAt(rules_content, p)})

\* for rule in rule_splits: if rule.strip(): sections.append(("RULES", rule.strip()))
RuleSections(rules_content) ==
    LET stripped == [k \in 1..Len(RuleSplits(rules_content)) |->
                        Strip(RuleSplits(rules_content)[k])]
        kept == SelectSeq(stripped, LAMBDA r : r # <<>>)
    IN  [k \in 1..Len(kept) |-> [type |-> "RULES", text |-> kept[k]]]

NotificationProcessor_split_into_sections(content) ==
    LET pre == PreambleSpan(content)
        rules == RulesSpan(content)
        clo == NotificationClosingSpan(content)
    IN  (IF pre # <<>>
         THEN <<[type |-> "PREAMBLE", text |-> SpanText(content, pre[1])]>>
         ELSE <<>>)
        \o (IF rules # <<>> THEN RuleSections(SpanText(content, rules[1])) ELSE <<>>)
        \o (IF clo # <<>>
            THEN <<[type |-> "CLOSING", text |-> SpanText(content, clo[1])]>>
            ELSE <<>>)

_process_preamble(content) ==
    <<NotificationChunk(<<"preamble">>, "PREAMBLE", NoneVal, NoneVal, content)>>

\* \((\d+)\) at position i
SubRuleAt(text, i) ==
    LET n == DigitRun(text, i + 1)
    IN  /\ text[i] = "("
        /\ n >= 1
        /\ i + 1 + n <= Len(text) /\ text[i + 1 + n] = ")"

\* the end of the match of \((\d+)\)(.*?)(?=\(\d+\)|$) that starts at i
SubRuleEnd(text, i) ==
    LET next == {j \in (i + 2 + DigitRun(text, i + 1))..Len(text) : SubRuleAt(text, j)}
    IN  IF next = {} THEN Len(text) ELSE Min(next) - 1

\* list(re.finditer(sub_rule_pattern, content, re.DOTALL)): the start positions
SubRules(content) ==
    LET M == {i \in 1..Len(content) : SubRuleAt(content, i)}
    IN  Scan(Len(content), 1, M, [i \in M |-> SubRuleEnd(content, i) - i + 1])

\* Variant: the minimum size is not checked.
SubRuleChunk_AnySize(content, rule_num, i) ==
    LET n == DigitRun(content, i + 1)
        sub_rule_num == SubSeq(content, i + 1, i + n)
        sub_rule_content == Strip(SubSeq(content, i + n + 2, SubRuleEnd(content, i)))
    IN  <<NotificationChunk(
              <<"rule_">> \o rule_num \o <<"_subrule_">> \o sub_rule_num,
              "SUB_RULE", rule_num, sub_rule_num, sub_rule_content)>>

\* the chunk of the sub-rule at position i, <<>> when its content is shorter
\* than min_chunk_size
SubRuleChunk(content, rule_num, i) ==
    LET n == DigitRun(content, i + 1)
        sub_rule_num == SubSeq(content, i + 1, i + n)
        sub_rule_content == Strip(SubSeq(content, i + n + 2, SubRuleEnd(content, i)))
    IN  IF CharLen(sub_rule_content) >= min_chunk_size
        THEN <<NotificationChunk(
                   <<"rule_">> \o rule_num \o <<"_subrule_">> \o sub_rule_num,
                   "SUB_RULE", rule_num, sub_rule_num, sub_rule_content)>>
        ELSE <<>>

_process_rules(content) ==
    LET rule_num == LeadingNumber(content)
        sub_rules == SubRules(content)
    IN  IF ~MarkerAt(content, 1) THEN <<>>
        ELSE IF sub_rules # <<>>
        THEN ConcatAll([k \in 1..Len(sub_rules) |->
                           SubRuleChunk(content, rule_num, sub_rules[k])])
        ELSE <<NotificationChunk(<<"rule_">> \o rule_num, "RULE", rule_num, NoneVal, content)>>

_process_closing(content) ==
    <<NotificationChunk(<<"closing">>, "CLOSING", NoneVal, NoneVal, content)>>

ProcessNotificationSection(sec) ==
    CASE sec.type = "PREAMBLE" -> _process_preamble(sec.text)
      [] sec.type = "RULES" -> _process_rules(sec.text)
      [] sec.type = "CLOSING" -> _process_closing(sec.text)
      [] OTHER -> <<>>

NotificationProcessor_chunk_content(content) ==
    LET sections == NotificationProcessor_split_into_sections(content)
    IN  ConcatAll([i \in 1..Len(sections) |-> ProcessNotificationSection(sections[i])])

----------------------------------------------------------------------------
(* The documents: circulars built from header lines, an opening paragraph,
   numbered paragraphs and a closing. *)

MaxParas == 2
MaxCalls == 2
MaxClock == 1

HeaderAuthority == {<<>>, <<"**Insolvency and Bankruptcy Board of India**", NL>>}
HeaderNumber == {<<>>, <<"No. IP/002/2018", NL>>, <<"No. LAD/CIR/18", NL>>}
HeaderDate ==
    {<<>>,
     <<"12[th] June,", " ", "2", "0", "1", "8", NL>>,
     <<"12[th]June,", " ", "2", "0", "1", "8", NL>>}
HeaderSubject ==
    {<<>>,
     <<"**Subject: Filing of forms**", NL, NL>>,
     <<"**Subject: Filing of forms**", NL>>}

OpeningParagraph ==
    {<<>>,
     <<"In", " ", "exercise of", " ", "powers", " ", "under", " ", "Section", " ",
       "1", "9", "6", " ", "the", " ", "Board", " ", "may", " ", "direct", ":", NL, NL>>}

Para1 ==
    <<"1", ".", " ", "Filing", " ", "shall", " ", "be", " ", "done", " ", "within", " ",
      "3", "0", " ", "days", ".", NL, NL>>
Para2 ==
    <<"2", ".", " ", "(a)", " ", "Forms", " ", "may", " ", "be", " ", "filed", " ",
      "subject to", " ", "Regulation", " ", "7", "(", "2", ")", " ", "by", " ",
      "3", "0", ".", "0", "6", ".", "2", "0", "1", "8", NL, NL>>
Para3 ==
    <<"2", ".", " ", "See", " ", "Circular No. IBBI/CIR/2017", " ", "at", " ",
      "https://ibbi.gov.in", " ", "with", " ", "effect from", " ",
      "1[st] April,", " ", "2", "0", "1", "6", ".", NL, NL>>

ParaPool == {Para1, Para2, Para3}

ClosingParagraph ==
    {<<>>,
     <<"This is issued", " ", "under", " ", "section", " ", "1", "9", "6", " ",
       "read with section", " ", "2", "0", "8", ".", NL, "Yours faithfully">>,
     <<"Yours faithfully", NL, "Page 1 of 2">>}

\* the lists of up to n different elements of S
DistinctLists(S, n) ==
    {s \in UNION {[1..k -> S] : k \in 0..n} : \A i, j \in 1..Len(s) : i # j => s[i] # s[j]}

CircularBodies ==
    {o \o ConcatAll(ps) \o c :
        o \in OpeningParagraph,
        ps \in DistinctLists(ParaPool, MaxParas),
        c \in ClosingParagraph}

CircularHeaders ==
    {a \o n \o d \o sj :
        a \in HeaderAuthority, n \in HeaderNumber, d \in HeaderDate, sj \in HeaderSubject}

FullHeader ==
    <<"**Insolvency and Bankruptcy Board of India**", NL, "No. IP/002/2018", NL,
      "12[th] June,", " ", "2", "0", "1", "8", NL, "**Subject: Filing of forms**", NL, NL>>

PlainBody == Para1 \o Para2 \o <<"Yours faithfully", NL, "Page 1 of 2">>

\* a circular whose header number and date match only the permissive
\* patterns, and whose body holds a number and a date of the strict formats
PrecedenceCircular ==
    <<"No. LAD/CIR/18", NL, "12[th]June,", " ", "2", "0", "1", "8", NL>>
    \o Para3 \o <<"See", " ", "No. IP/002/2018", NL>>

\* every header with no body and with a plain body; every body with no header
\* and with a full header; the precedence circular
CircularDocs ==
    {h \o b : h \in CircularHeaders, b \in {<<>>, PlainBody}}
    \cup {h \o b : h \in {<<>>, FullHeader}, b \in CircularBodies}
    \cup {PrecedenceCircular}

----------------------------------------------------------------------------
(* The documents: notifications built from gazette header lines, a Hindi
   line, a preamble, numbered rules and a closing. *)

RegistryLine ==
    {<<>>, <<"REGD. NO. D. L", ".", "-", "3", "3", "/", "9", "9", NL>>}

HindiLine ==
    {<<>>, <<"<U+0905 U+0938>", " ", "<U+0928 U+092E>", NL>>}

GazetteLine ==
    {<<>>,
     <<"No", ".", " ", "1", "2", "]", " ", "NEW DELHI", ",", " ", "FRIDAY", ",", " ",
       "MARCH", " ", "3", ",", " ", "2", "0", "1", "7", "/", "PHALGUNA", " ",
       "1", "2", ",", " ", "1", "9", "3", "8", NL>>}

MinistryHeading ==
    {<<>>,
     <<"MINISTRY OF CORPORATE AFFAIRS", NL, "NOTIFICATION", NL>>,
     <<Bullet, " ", "MINISTRY OF CORPORATE AFFAIRS", " ", "[", " ", "]", NL,
       "NOTIFICATION", " ", "_", Degree, NL, NL>>}

NotificationDateLine ==
    {<<>>,
     <<"New Delhi", ",", " ", "the", " ", "3", "rd", " ", "March", ",", " ",
       "2", "0", "1", "7", NL>>}

\* the preamble up to "namely:", closed by the mark `dash`
PreambleWith(dash) ==
    <<"G", ".", "S", ".", "R", ".", " ", "1", "2", "3", "(", "E", ")", ".", dash,
      "In exercise of the powers", " ", "conferred by", " ", "section", " ",
      "4", "6", "9", " ", "of", " ", "the", " ", "Companies", " ", "Act", ",", " ",
      "2", "0", "1", "3", ",", " ", "to amend the", " ", "Companies", " ", "Rules",
      ",", " ", "2", "0", "1", "4", ",", " ", "namely", " ", ":", dash, NL>>

Preambles == {<<>>, PreambleWith(EmDash), PreambleWith("--")}

LongPassage ==
    "they are to come into force on the date of their publication in the gazette and apply to every company incorporated hereafter"

Rule1 ==
    <<"1", ".", " ", "Short title", ".", "-", "-", " ", "(", " ", "1", ")", " ",
      "These rules may be called", " ", "the", " ", "Companies", " ", "Rules", ",",
      " ", "2", "0", "1", "7", ".", NL,
      "(", "2", ")", " ", LongPassage, " ", ".", ".", NL>>
Rule2 ==
    <<"2", ".", " ", "In", " ", "rule", " ", "3", ",", " ", "the words", " ",
      "shall be substituted", ".", "The", " ", "rest", " ", "means", " ", "the same",
      ".", NL>>
Rule12 ==
    <<"1", "2", ".", " ", "In", " ", "section", " ", "7", " ", "read with section",
      " ", "8", ",", " ", "the proviso", " ", "shall be omitted", " ", "subject to",
      " ", "rule", " ", "4", " ", "hereof", ".", NL>>

RulePool == {Rule1, Rule2, Rule12}

NotificationClosing ==
    {<<>>,
     <<"[", "F. No", ".", " ", "1", "/", "2", "/", "2", "0", "1", "7", "]">>,
     <<"[", "F. No", ".", " ", "1", "/", "2", "/", "2", "0", "1", "7", "]", NL,
       "Note", " ", ":", " ", "The", " ", "principal rules were published", " ", "under", " ",
       "the", " ", "Companies", " ", "Act", ",", " ", "2", "0", "1", "3", ",", " ",
       "Rule", " ", "3", "(", "1", ")", " ", "dated", " ", "the", " ", "3", "1", "st", " ", "March", ",", " ",
       "2", "0", "1", "4", ".", NL>>}

NotificationBodies ==
    {p \o ConcatAll(rs) \o c :
        p \in Preambles,
        rs \in DistinctLists(RulePool, MaxParas),
        c \in NotificationClosing}

NotificationHeaders ==
    {r \o h \o g \o m \o d :
        r \in RegistryLine, h \in HindiLine, g \in GazetteLine,
        m \in MinistryHeading, d \in NotificationDateLine}

FullNotificationHeader ==
    <<"REGD. NO. D. L", ".", "-", "3", "3", "/", "9", "9", NL,
      "<U+0905 U+0938>", " ", "<U+0928 U+092E>", NL,
      "MINISTRY OF CORPORATE AFFAIRS", NL, "NOTIFICATION", NL,
      "New Delhi", ",", " ", "the", " ", "3", "rd", " ", "March", ",", " ",
      "2", "0", "1", "7", NL>>

PlainNotificationBody ==
    PreambleWith("--") \o Rule2
    \o <<"[", "F. No", ".", " ", "1", "/", "2", "/", "2", "0", "1", "7", "]">>

\* a notification whose only English marker, "G.S.R.", carries a stray OCR
\* mark inside it
DamagedNotificationBody ==
    <<"G", ".", "S", Bullet, ".", "R", ".", " ", "1", "2", "3", "(", "E", ")", ".", "--",
      "The", " ", "rules", " ", "are amended", ",", " ", "namely", ":", "--", NL>>
    \o Rule2

\* a bilingual notification with a Hindi word left inside its English rule
MixedNotification ==
    FullNotificationHeader \o PreambleWith("--")
    \o <<"3", ".", " ", "In", " ", "rule", " ", "5", ",", " ", "<U+0905 U+0938>", " ",
         "the words", " ", "shall be inserted", ".", NL>>

\* a notification whose rule 5 has four sub-points: two long ones, a short
\* one, and a long one that repeats the number of the first
SubRulesNotification ==
    PreambleWith("--")
    \o <<"5", ".", " ", "(", "1", ")", " ", LongPassage, ";", NL,
         "(", "2", ")", " ", LongPassage, ";", NL,
         "(", "3", ")", " ", "shall be omitted", ";", NL,
         "(", "1", ")", " ", LongPassage, ".", NL>>

\* every header with no body and with a plain body; every body with no header
\* and with a full header; the damaged body with and without a Hindi line;
\* the mixed notification; the notification with sub-points
NotificationDocs ==
    {h \o b : h \in NotificationHeaders, b \in {<<>>, PlainNotificationBody}}
    \cup {h \o b : h \in {<<>>, FullNotificationHeader}, b \in NotificationBodies}
    \cup {h \o DamagedNotificationBody : h \in HindiLine}
    \cup {MixedNotification, SubRulesNotification}

DocsOf(fam) == IF fam = "circular" THEN CircularDocs ELSE NotificationDocs

----------------------------------------------------------------------------
(* process_file *)

\* hashlib.md5(content.encode()).hexdigest(): a value that names the content
Md5(content) == <<"md5">> \o content

FileName == "document.md"

\* self.chunks.extend(self._chunk_content(content)) in place of the assignment
AssignChunks_Accumulate(old, new) == old \o new

\* self.chunks = self._chunk_content(content)
AssignChunks(old, new) == new

\* self._extract_metadata(content, file_path, doc_hash)
ExtractMetadata(fam, content, doc_hash, now) ==
    IF fam = "circular"
    THEN CircularProcessor_extract_metadata(content, FileName, doc_hash, now)
    ELSE NotificationProcessor_extract_metadata(content, FileName, doc_hash, now)

\* self._chunk_content(content), self._chunk_content(english_content)
ChunkContent(fam, fr) ==
    IF fam = "circular"
    THEN CircularProcessor_chunk_content(fr.content)
    ELSE NotificationProcessor_chunk_content(fr.english_content)

InitDoc ==
    /\ family \in {"circular", "notification"}
    /\ file \in DocsOf(family)
    /\ DocIdle
    /\ ScriptsIdle
    /\ input = <<>>
    /\ metadata = DocMetadata("", "")
    /\ called_with = [chunks |-> <<>>, metadata |-> DocMetadata("", "")]
    /\ shares = NoSharing
    /\ chunks = <<>>
    /\ merged_chunks = <<>>
    /\ current_chunk = <<>>
    /\ idx = 0
    /\ pc = "start"
    /\ last = NoStep

\* with open(file_path) as file: content = file.read(); doc_hash = md5(content)
ReadFile ==
    /\ dpc = "idle"
    /\ Len(results) < MaxCalls
    /\ frame' = [content |-> file, doc_hash |-> Md5(file), english_content |-> <<>>]
    /\ dpc' = IF family = "notification" THEN "english" ELSE "metadata"
    /\ UNCHANGED <<family, file, clock, self_metadata, self_chunks, results>>
    /\ UNCHANGED mergeVars
    /\ UNCHANGED workerVars
    /\ UNCHANGED scriptVars

\* english_content = self._extract_english_content(content)
EnglishContent ==
    /\ dpc = "english"
    /\ LET r == _extract_english_content(frame.content)
       IN  IF r.raised # ""
           THEN /\ results' = Append(results, r)
                /\ dpc' = "idle"
                /\ frame' = NoFrame
           ELSE /\ frame' = [frame EXCEPT !.english_content = r.value]
                /\ dpc' = "metadata"
                /\ UNCHANGED results
    /\ UNCHANGED <<family, file, clock, self_metadata, self_chunks>>
    /\ UNCHANGED mergeVars
    /\ UNCHANGED workerVars
    /\ UNCHANGED scriptVars

\* self.metadata = self._extract_metadata(content, file_path, doc_hash)
Metadata ==
    /\ dpc = "metadata"
    /\ LET r == ExtractMetadata(family, frame.content, frame.doc_hash, clock)
       IN  IF r.raised # ""
           THEN /\ results' = Append(results, r)
                /\ dpc' = "idle"
                /\ frame' = NoFrame
                /\ UNCHANGED self_metadata
           ELSE /\ self_metadata' = r.value
                /\ dpc' = "chunks"
                /\ UNCHANGED <<results, frame>>
    /\ UNCHANGED <<family, file, clock, self_chunks>>
    /\ UNCHANGED mergeVars
    /\ UNCHANGED workerVars
    /\ UNCHANGED scriptVars

\* self.chunks = self._chunk_content(...)
Chunks ==
    /\ dpc = "chunks"
    /\ self_chunks' = AssignChunks(self_chunks, ChunkContent(family, frame))
    /\ dpc' = "return"
    /\ UNCHANGED <<family, file, clock, self_metadata, frame, results>>
    /\ UNCHANGED mergeVars
    /\ UNCHANGED workerVars
    /\ UNCHANGED scriptVars

\* return {"metadata": asdict(self.metadata), "chunks": [asdict(c) for c in self.chunks]}
ReturnResult ==
    /\ dpc = "return"
    /\ results' = Append(results, Returned([metadata |-> self_metadata, chunks |-> self_chunks]))
    /\ dpc' = "idle"
    /\ frame' = NoFrame
    /\ UNCHANGED <<family, file, clock, self_metadata, self_chunks>>
    /\ UNCHANGED mergeVars
    /\ UNCHANGED workerVars
    /\ UNCHANGED scriptVars

\* time passes
Tick ==
    /\ clock < MaxClock
    /\ clock' = clock + 1
    /\ UNCHANGED <<family, file, self_metadata, self_chunks, frame, dpc, results>>
    /\ UNCHANGED mergeVars
    /\ UNCHANGED workerVars
    /\ UNCHANGED scriptVars

NextDoc == ReadFile \/ EnglishContent \/ Metadata \/ Chunks \/ ReturnResult \/ Tick

SpecDoc == InitDoc /\ [][NextDoc]_vars

----------------------------------------------------------------------------
(* Properties of the document processors *)

\* the metadata with its processing_timestamp blanked
WithoutTimestamp(md) == [md EXCEPT !.processing_timestamp = 0]

\* C9: metadata extraction never raises because a field has no pattern match:
\* whenever process_file is about to call _extract_metadata, on whatever text,
\* the call returns a metadata value and does not raise.
C9_MetadataNeverRaises ==
    dpc = "metadata" =>
        ExtractMetadata(family, frame.content, frame.doc_hash, clock).raised = ""

\* C10 as stated: two calls of process_file on the same file give the same
\* result, every metadata field and the chunk list equal.
C10_IdempotentAsStated ==
    Len(results) = 2 => results[1] = results[2]

\* C10 amended: two calls of process_file on the same file have the same
\* outcome: both raise the same error, or both return the same chunk list
\* (chunk_ids, contents, order) and the same metadata in every field other
\* than processing_timestamp.
C10_IdempotentAmended ==
    Len(results) = 2 =>
        /\ results[1].raised = results[2].raised
        /\ results[1].raised = "" =>
              /\ results[1].value.chunks = results[2].value.chunks
              /\ WithoutTimestamp(results[1].value.metadata)
                    = WithoutTimestamp(results[2].value.metadata)

\* two completed calls on a file with chunks, made at different times
C10_Witness ==
    /\ Len(results) = 2
    /\ results[1].raised = ""
    /\ results[2].raised = ""
    /\ Len(results[1].value.chunks) >= 2
    /\ results[1].value.metadata.processing_timestamp
         # results[2].value.metadata.processing_timestamp

\* C11: when the text of a notification holds no "namely:<U+2014>" enactment
\* phrase (here: the word "namely" occurs nowhere in the file), every call of
\* NotificationProcessor.process_file on it raises and none returns a result.
C11_MissingAnchorRaises ==
    (family = "notification" /\ "namely" \notin Range(file))
    => \A i \in 1..Len(results) : results[i].raised # ""

\* a character of the Devanagari block occurs in the text
HasDevanagari(text) == Range(text) \cap HindiTokens # {}

\* the positions of the English marker phrases in the text
MarkerPositions(text) == {i \in 1..Len(text) : EnglishMarkerAt(text, i)}

\* _extract_english_content has just returned in the current call
EnglishContentReturned ==
    family = "notification" /\ dpc = "metadata"

\* the words of the text before position i that do not occur from i onward
WordsOnlyBefore(text, i) ==
    Range(SubSeq(text, 1, i - 1)) \ (Range(SubSeq(text, i, Len(text))) \cup Whitespace)

\* a call of process_file has just returned or raised, or its
\* _extract_english_content has just returned
CallJustEnded == dpc \in {"idle", "metadata"}

\* C12 as stated: _extract_english_content raises ValueError exactly when the
\* text it is given has Devanagari characters and none of the marker phrases;
\* a bilingual text with a marker gives the (cleaned) text from the earliest
\* marker onward; a text without Devanagari never raises.
C12_EnglishContentAsStated ==
    (family = "notification" /\ CallJustEnded) =>
        LET marks == MarkerPositions(file)
        IN  /\ \A i \in 1..Len(results) :
                   results[i].raised = "ValueError" <=> (HasDevanagari(file) /\ marks = {})
            /\ EnglishContentReturned => ~(HasDevanagari(file) /\ marks = {})
            /\ (EnglishContentReturned /\ HasDevanagari(file) /\ marks # {}) =>
                   /\ frame.english_content =
                          _clean_english_content(_clean_ocr_artifacts(
                              SubSeq(file, Min(marks), Len(file))))
                   /\ WordsOnlyBefore(file, Min(marks)) \cap Range(frame.english_content) = {}

\* C12 amended: the markers are looked for in the text as _clean_ocr_artifacts
\* leaves it (characters outside ASCII and Devanagari and empty bracket pairs
\* removed).  ValueError is raised exactly when that text has Devanagari
\* characters and no marker; with Devanagari and a marker the result is the
\* cleaned text from the earliest marker of that text onward and holds no word
\* that occurs only before it; without Devanagari the call never raises.
C12_EnglishContentAmended ==
    (family = "notification" /\ CallJustEnded) =>
        LET content == _clean_ocr_artifacts(file)
            marks == MarkerPositions(content)
        IN  /\ \A i \in 1..Len(results) :
                   results[i].raised = "ValueError" <=> (HasDevanagari(file) /\ marks = {})
            /\ EnglishContentReturned => ~(HasDevanagari(file) /\ marks = {})
            /\ (EnglishContentReturned /\ HasDevanagari(file) /\ marks # {}) =>
                   /\ frame.english_content =
                          _clean_english_content(SubSeq(content, Min(marks), Len(content)))
                   /\ WordsOnlyBefore(content, Min(marks)) \cap Range(frame.english_content) = {}
            /\ (EnglishContentReturned /\ ~HasDevanagari(file)) =>
                   frame.english_content = _clean_english_content(content)

\* C12 witness: a bilingual file with words before its first marker has been
\* cut at the marker, after an earlier call on it returned.
C12_Witness ==
    /\ EnglishContentReturned
    /\ HasDevanagari(file)
    /\ MarkerPositions(_clean_ocr_artifacts(file)) # {}
    /\ WordsOnlyBefore(_clean_ocr_artifacts(file),
                       Min(MarkerPositions(_clean_ocr_artifacts(file)))) # {}
    /\ frame.english_content # <<>>
    /\ Len(results) = 1

\* a Hindi block followed by English text that contains "G.S.R. 123(E)"
HindiThenGsr123(text) ==
    \E g \in 1..Len(text) :
        /\ text[g] = "G"
        /\ g + 12 <= Len(text)
        /\ SubSeq(text, g, g + 12) =
               <<"G", ".", "S", ".", "R", ".", " ", "1", "2", "3", "(", "E", ")">>
        /\ \E h \in 1..(g - 1) : text[h] \in HindiTokens

NoDevanagariIn(cs) == \A k \in 1..Len(cs) : ~HasDevanagari(cs[k].content)

\* C13: for a bilingual notification (a Hindi block followed by English text
\* containing "G.S.R. 123(E)") process_file returns notification_number "123",
\* and no chunk NotificationProcessor builds or returns, for any file, has a
\* character of the Devanagari block in its content (looked at when the chunks
\* have just been built and when the call has ended).
C13_BilingualScenario ==
    (family = "notification" /\ dpc \in {"return", "idle"}) =>
        /\ NoDevanagariIn(self_chunks)
        /\ \A i \in 1..Len(results) :
               results[i].raised = "" =>
                   /\ NoDevanagariIn(results[i].value.chunks)
                   /\ HindiThenGsr123(file) =>
                          results[i].value.metadata.notification_number = <<"1", "2", "3">>

\* C13 witness: the mixed notification (a Hindi header line and a Hindi word
\* inside rule 3) was processed and its rule returned as a chunk.
C13_Witness ==
    /\ family = "notification"
    /\ file = MixedNotification
    /\ HindiThenGsr123(file)
    /\ Len(results) = 1
    /\ results[1].raised = ""
    /\ results[1].value.metadata.notification_number = <<"1", "2", "3">>
    /\ \E k \in 1..Len(results[1].value.chunks) :
           results[1].value.chunks[k].chunk_id = <<"rule_", "3">>

\* the source spans <<first, last>> of the sections that _split_into_sections
\* returns for the text of the current call (the RULES sections of a
\* notification are the pieces of one span)
SectionSpans ==
    IF family = "circular"
    THEN LET secs == _split_into_sections(_remove_header_section(frame.content))
         IN  [i \in 1..Len(secs) |-> secs[i].span]
    ELSE PreambleSpan(frame.english_content) \o RulesSpan(frame.english_content)
         \o NotificationClosingSpan(frame.english_content)

SpansDisjoint(a, b) == a[2] < b[1] \/ b[2] < a[1]

\* C14: the sections returned by _split_into_sections never overlap: the spans
\* of the CONTEXT/PREAMBLE section, of each DIRECTIVE/RULES section and of the
\* CLOSING section are pairwise disjoint, for every text process_file hands
\* to the splitter.
C14_SectionsDisjoint ==
    dpc = "chunks" =>
        \A i \in 1..Len(SectionSpans) : \A j \in (i + 1)..Len(SectionSpans) :
            SpansDisjoint(SectionSpans[i], SectionSpans[j])

----------------------------------------------------------------------------
(* process_file called by two workers on one processor instance: each worker
   runs one call, on a file of its own, and the statements of the two calls
   interleave.  self.metadata and self.chunks are attributes of the shared
   instance; content, doc_hash and english_content are locals of a call. *)

Workers == {1, 2}

SharedCircularDocs ==
    {FullHeader \o PlainBody,
     FullHeader \o Para3,
     <<"No. LAD/CIR/18", NL, "12[th]June,", " ", "2", "0", "1", "8", NL>> \o PlainBody,
     PlainBody}

SharedNotificationDocs ==
    {FullNotificationHeader \o PlainNotificationBody,
     MixedNotification,
     PlainNotificationBody,
     <<"<U+0905 U+0938>", " ", "<U+0928 U+092E>", NL>>}

SharedDocs(fam) == IF fam = "circular" THEN SharedCircularDocs ELSE SharedNotificationDocs

\* a worker that has not yet called process_file(file)
NewCall(text) ==
    [file |-> text, content |-> <<>>, doc_hash |-> <<>>, english_content |-> <<>>,
     pc |-> "start", result |-> NoneVal]

InitShared ==
    /\ family \in {"circular", "notification"}
    /\ workers \in {w \in [Workers -> {NewCall(t) : t \in SharedDocs(family)}] :
                       \A a, b \in Workers : a # b => w[a].file # w[b].file}
    /\ file = <<>>
    /\ clock = 0
    /\ self_metadata = NoneVal
    /\ self_chunks = <<>>
    /\ frame = NoFrame
    /\ dpc = "idle"
    /\ results = <<>>
    /\ ScriptsIdle
    /\ input = <<>>
    /\ metadata = DocMetadata("", "")
    /\ called_with = [chunks |-> <<>>, metadata |-> DocMetadata("", "")]
    /\ shares = NoSharing
    /\ chunks = <<>>
    /\ merged_chunks = <<>>
    /\ current_chunk = <<>>
    /\ idx = 0
    /\ pc = "start"
    /\ last = NoStep

\* what the calls of the workers leave alone
otherVars == <<family, file, clock, frame, dpc, results, mergeVars, scriptVars>>

WorkerFrame(c) ==
    [content |-> c.content, doc_hash |-> c.doc_hash, english_content |-> c.english_content]

\* content = file.read(); doc_hash = md5(content)
WorkerReadFile ==
    \E w \in Workers :
        /\ workers[w].pc = "start"
        /\ workers' = [workers EXCEPT ![w].content = workers[w].file,
                                      ![w].doc_hash = Md5(workers[w].file),
                                      ![w].pc = IF family = "notification"
                                                THEN "english" ELSE "metadata"]
        /\ UNCHANGED <<self_metadata, self_chunks>>
        /\ UNCHANGED otherVars

\* english_content = self._extract_english_content(content)
WorkerEnglishContent ==
    \E w \in Workers :
        /\ workers[w].pc = "english"
        /\ LET r == _extract_english_content(workers[w].content)
           IN  workers' =
                   IF r.raised # ""
                   THEN [workers EXCEPT ![w].result = r, ![w].pc = "done"]
                   ELSE [workers EXCEPT ![w].english_content = r.value,
                                        ![w].pc = "metadata"]
        /\ UNCHANGED <<self_metadata, self_chunks>>
        /\ UNCHANGED otherVars

\* self.metadata = self._extract_metadata(content, file_path, doc_hash)
WorkerMetadata ==
    \E w \in Workers :
        /\ workers[w].pc = "metadata"
        /\ LET r == ExtractMetadata(family, workers[w].content, workers[w].doc_hash, clock)
           IN  IF r.raised # ""
               THEN /\ workers' = [workers EXCEPT ![w].result = r, ![w].pc = "done"]
                    /\ UNCHANGED self_metadata
               ELSE /\ self_metadata' = r.value
                    /\ workers' = [workers EXCEPT ![w].pc = "chunks"]
        /\ UNCHANGED self_chunks
        /\ UNCHANGED otherVars

\* self.chunks = self._chunk_content(...)
WorkerChunks ==
    \E w \in Workers :
        /\ workers[w].pc = "chunks"
        /\ self_chunks' = AssignChunks(self_chunks, ChunkContent(family, WorkerFrame(workers[w])))
        /\ workers' = [workers EXCEPT ![w].pc = "return"]
        /\ UNCHANGED self_metadata
        /\ UNCHANGED otherVars

\* return {"metadata": asdict(self.metadata), "chunks": [asdict(c) for c in self.chunks]}
WorkerReturn ==
    \E w \in Workers :
        /\ workers[w].pc = "return"
        /\ workers' = [workers EXCEPT
                          ![w].result = Returned([metadata |-> self_metadata,
                                                  chunks |-> self_chunks]),
                          ![w].pc = "done"]
        /\ UNCHANGED <<self_metadata, self_chunks>>
        /\ UNCHANGED otherVars

NextShared ==
    WorkerReadFile \/ WorkerEnglishContent \/ WorkerMetadata \/ WorkerChunks
    \/ WorkerReturn

SpecShared == InitShared /\ [][NextShared]_vars

\* what process_file returns or raises for the text on a processor of its own
FreshResult(fam, text) ==
    LET eng == IF fam = "notification" THEN _extract_english_content(text)
               ELSE Returned(<<>>)
        md == ExtractMetadata(fam, text, Md5(text), 0)
        fr == [content |-> text, doc_hash |-> Md5(text), english_content |-> eng.value]
    IN  IF eng.raised # "" THEN eng
        ELSE IF md.raised # "" THEN md
        ELSE Returned([metadata |-> md.value, chunks |-> ChunkContent(fam, fr)])

\* C15: the processors hold no state shared between documents: when two calls
\* of process_file for two different documents interleave on one processor
\* instance, each call returns the metadata and the chunks of its own
\* document, those a call on a fresh instance returns.
C15_NoSharedState ==
    \A w \in DOMAIN workers :
        workers[w].pc = "done" =>
            workers[w].result = FreshResult(family, workers[w].file)

\* _extract_metadata has just returned in the current call on a circular
CircularMetadataReturned ==
    family = "circular" /\ dpc = "chunks"

\* pattern k of the list is the first one that matches somewhere in the text
\* (found[k] is the result of re.search for pattern k)
IsFirstMatching(found, k) ==
    found[k].ok /\ \A j \in 1..(k - 1) : ~found[j].ok

DateSearches(text) == [k \in 1..NumDatePatterns |-> DateSearch(k, text)]
NumberSearches(text) == [k \in 1..NumNumberPatterns |-> NumberSearch(k, text)]

\* C16: for date and circular number the extracted value is the match of the
\* lowest-indexed pattern of the list that matches anywhere in the text, also
\* when a later pattern matches at an earlier place; a later pattern counts
\* only when no earlier one matches anywhere (and circular_number is "" when
\* none matches).
C16_PatternPrecedence ==
    CircularMetadataReturned =>
        LET dates == DateSearches(file)
            numbers == NumberSearches(file)
        IN  /\ \A k \in 1..NumDatePatterns :
                   IsFirstMatching(dates, k) => self_metadata.date = dates[k].group
            /\ \A k \in 1..NumNumberPatterns :
                   IsFirstMatching(numbers, k) =>
                       self_metadata.circular_number = numbers[k].group
            /\ (\A k \in 1..NumNumberPatterns : ~numbers[k].ok) =>
                   self_metadata.circular_number = <<>>

\* C16 witness: the header number and date match only later patterns, the
\* body holds a number and a date that match pattern 1, and the metadata has
\* the values from the body.
C16_Witness ==
    /\ CircularMetadataReturned
    /\ file = PrecedenceCircular
    /\ DateSearches(file)[4].group = <<"12[th]June,", " ", "2", "0", "1", "8">>
    /\ NumberSearches(file)[7].group = <<"LAD/CIR/18">>
    /\ self_metadata.date = <<"1[st] April,", " ", "2", "0", "1", "6">>
    /\ self_metadata.circular_number = <<"IP/002/2018">>

----------------------------------------------------------------------------
(* Further properties of the merge engine *)

\* the chunk carries a paragraph_number that is a decimal numeral
HasNumericParagraph(c) ==
    /\ "paragraph_number" \in c.keys
    /\ c.paragraph_number # NoneVal
    /\ c.paragraph_number # <<>>
    /\ \A i \in 1..Len(c.paragraph_number) : c.paragraph_number[i] \in Digits

\* rule (d) of the decision table for the pair
ConsecutiveDirectives(a, b) ==
    /\ a.chunk_type = "DIRECTIVE" /\ b.chunk_type = "DIRECTIVE"
    /\ HasNumericParagraph(a) /\ HasNumericParagraph(b)
    /\ DecimalValue(a.paragraph_number) - DecimalValue(b.paragraph_number) \in {1, -1}

\* the decision table: the rule (a)..(e) that decides the pair, and the answer
DecisionTable(a, b, combined) ==
    IF combined < MIN_TOKENS THEN <<"a", TRUE>>
    ELSE IF combined > MAX_TOKENS THEN <<"b", FALSE>>
    ELSE IF TokenCount(b.content) < TINY_TOKENS THEN <<"c", TRUE>>
    ELSE IF ConsecutiveDirectives(a, b) THEN <<"d", TRUE>>
    ELSE <<"e", FALSE>>

\* the last loop iteration decided about a pair
PairDecided == last.kind \in {"merge", "flush", "raise"}

\* C17: for every pair the main pass meets, should_merge answers as the
\* decision table (a) combined < MIN_TOKENS: merge; (b) combined > MAX_TOKENS:
\* no; (c) next chunk under 20 tokens: merge, whatever the types; (d) both
\* DIRECTIVE with numeric paragraph numbers that differ by exactly 1: merge;
\* (e) otherwise no, in this precedence, and the pair is merged exactly when
\* the answer is to merge.
C17_DecisionTable ==
    PairDecided =>
        LET a == last.a[1]
            b == last.b[1]
            combined == TokenCount(a.content \o <<" ">> \o b.content)
            row == DecisionTable(a, b, combined)
        IN  /\ last.kind # "raise"
            /\ last.combined_tokens = combined
            /\ (last.kind = "merge") = row[2]
            /\ row[2] => last.rule = row[1]
            /\ (/\ last.kind = "merge"
                /\ combined >= MIN_TOKENS /\ combined <= MAX_TOKENS
                /\ TokenCount(b.content) >= TINY_TOKENS)
               => ConsecutiveDirectives(a, b)

\* C17 witness: a CONTEXT accumulator and a tiny DIRECTIVE chunk, together
\* within [MIN_TOKENS, MAX_TOKENS], merged by rule (c), after an earlier pair
\* was not merged.
C17_Witness ==
    /\ last.kind = "merge"
    /\ last.rule = "c"
    /\ last.a[1].chunk_type = "CONTEXT"
    /\ last.b[1].chunk_type = "DIRECTIVE"
    /\ last.combined_tokens >= MIN_TOKENS
    /\ Len(merged_chunks) = 1

\* C18: no merge of the main pass leaves the accumulator above the ceiling:
\* after every merge step, by whichever rule, the accumulator's content has at
\* most MAX_TOKENS tokens.
C18_MergeWithinCeiling ==
    last.kind = "merge" => TokenCount(current_chunk[1].content) <= MAX_TOKENS

\* C18 witness: two consecutive directives merged by rule (d) into an
\* accumulator of 590 tokens, which the next chunk would take over the ceiling.
C18_Witness ==
    /\ last.kind = "merge"
    /\ last.rule = "d"
    /\ TokenCount(current_chunk[1].content) = 590
    /\ idx <= Len(chunks)
    /\ TokenCount(current_chunk[1].content \o <<" ">> \o chunks[idx].content) > MAX_TOKENS

\* three DIRECTIVE chunks numbered n, n+1, n+2, none of them tiny, whose
\* running combined token count stays within [MIN_TOKENS, MAX_TOKENS]
ConsecutiveRun(cs) ==
    /\ Len(cs) = 3
    /\ \A i \in 1..3 :
           /\ cs[i].chunk_type = "DIRECTIVE"
           /\ HasNumericParagraph(cs[i])
           /\ TokenCount(cs[i].content) >= TINY_TOKENS
    /\ DecimalValue(cs[2].paragraph_number) = DecimalValue(cs[1].paragraph_number) + 1
    /\ DecimalValue(cs[3].paragraph_number) = DecimalValue(cs[2].paragraph_number) + 1
    /\ \A k \in 2..3 :
           LET combined == TokenCount(JoinBlank(SubSeq(Contents(cs), 1, k)))
           IN  combined >= MIN_TOKENS /\ combined <= MAX_TOKENS

\* C19: for three DIRECTIVE chunks numbered n, n+1, n+2, none tiny, whose
\* combined token count stays within [MIN_TOKENS, MAX_TOKENS] at each step,
\* merge_chunks returns a single chunk that holds all three.
C19_RunKeptTogether ==
    (pc = "done" /\ ConsecutiveRun(input)) =>
        /\ Len(merged_chunks) = 1
        /\ merged_chunks[1].content = JoinBlank(Contents(input))

\* the chunk carries both a paragraph_number and a paragraph_numbers field
CarriesBoth(c) == {"paragraph_number", "paragraph_numbers"} \subseteq c.keys

\* neither the accumulator nor a chunk flushed or returned by merge_chunks
\* carries both fields
NeverBothFields ==
    /\ \A i \in 1..Len(current_chunk) : ~CarriesBoth(current_chunk[i])
    /\ \A i \in 1..Len(merged_chunks) : ~CarriesBoth(merged_chunks[i])

\* C20: once the accumulator has a paragraph_numbers list, every further merge
\* into it leaves the list in place and gives it no scalar paragraph_number
\* again, and no chunk that merge_chunks builds or returns carries both fields.
C20_PluralNotReverted ==
    [][/\ NeverBothFields'
       /\ (/\ current_chunk # <<>>
           /\ "paragraph_numbers" \in current_chunk[1].keys
           /\ last'.kind = "merge")
          => /\ "paragraph_numbers" \in current_chunk'[1].keys
             /\ "paragraph_number" \notin current_chunk'[1].keys
             /\ current_chunk'[1].paragraph_numbers = current_chunk[1].paragraph_numbers]_vars

\* C20 witness: an accumulator with paragraph_numbers ["3", "4"] took a third
\* numbered chunk by a further merge and was returned with the list alone.
C20_Witness ==
    /\ pc = "done"
    /\ Len(input) = 3
    /\ Len(merged_chunks) = 1
    /\ HasScalarParagraph(input[3])
    /\ merged_chunks[1].paragraph_numbers = <<<<"3">>, <<"4">>>>
    /\ "paragraph_number" \notin merged_chunks[1].keys
    /\ merged_chunks[1].content = JoinBlank(Contents(input))

----------------------------------------------------------------------------
(* The special-case pass, input and output of merge_chunks *)

IsYearArtifact(chunk) == Strip(chunk.content) \in YearArtifacts

\* C21: the special-case pass folds every bare-year artifact chunk into the
\* chunk immediately preceding it, whatever the token counts: the list after
\* handle_special_cases is the input cut into runs joined by single blanks, no
\* run starts at an artifact chunk other than the first chunk of the input
\* (also when two artifact chunks follow each other), and no chunk of the
\* result other than the first is a bare "2016." or "2020.".
C21_ArtifactsFolded ==
    pc # "start" =>
        LET runs == RunsFrom(chunks, input, 1)
        IN  /\ IsRunPartition(chunks, input)
            /\ \A i \in 2..Len(input) :
                   IsYearArtifact(input[i]) => \A r \in 1..Len(runs) : runs[r][1] # i
            /\ \A k \in 2..Len(chunks) : ~ IsYearArtifact(chunks[k])

\* C22: merge_chunks leaves its arguments as they were: after the call (and
\* at every point of it) the caller's chunk list has the same length and
\* order, every dict of it has the same content, references,
\* paragraph_number and keys as when the call was made, and the metadata
\* argument is unchanged, whether or not folds or merges happened.
C22_ArgumentsUntouched ==
    pc # "start" =>
        /\ Len(input) = Len(called_with.chunks)
        /\ \A i \in 1..Len(input) : input[i] = called_with.chunks[i]
        /\ metadata = called_with.metadata

\* C22 witness: a call that folded a bare year and merged two chunks has
\* returned one chunk for three.
C22_Witness ==
    /\ pc = "done"
    /\ Len(called_with.chunks) = 3
    /\ Len(chunks) = 2
    /\ Len(merged_chunks) = 1
    /\ merged_chunks[1].keys = {"paragraph_numbers", "metadata"}
    /\ input = called_with.chunks

----------------------------------------------------------------------------
(* The section splitters and the chunks built from their sections *)

\* a marker `<number>.` that opens a paragraph: at the start of the text or
\* of a line
ParagraphOpeningMarkers(text) ==
    {i \in 1..Len(text) : MarkerAt(text, i) /\ (i = 1 \/ text[i - 1] = NL)}

\* the last position of the span that opens at marker i: before the next
\* marker or terminal phrase, or the end of the text when none follows
SpanEndFrom(text, i) ==
    LET anchors == DirectiveAnchorsFrom(text, MarkerEnd(text, i))
    IN  IF anchors = {} THEN Len(text) ELSE Min(anchors) - 1

\* C23: in the circular splitter every paragraph-opening marker `<number>.`
\* of the main content starts exactly one DIRECTIVE section, and the span of
\* that section runs up to the next marker or terminal phrase; the last
\* numbered paragraph has its section also when no marker and no terminal
\* phrase follows it.
C23_EveryMarkerOpensDirective ==
    (family = "circular" /\ dpc = "chunks") =>
        LET text == _remove_header_section(frame.content)
            secs == _split_into_sections(text)
        IN  \A i \in ParagraphOpeningMarkers(text) :
                /\ Cardinality({k \in 1..Len(secs) :
                                   secs[k].type = "DIRECTIVE" /\ secs[k].span[1] = i}) = 1
                /\ \A k \in 1..Len(secs) :
                       (secs[k].type = "DIRECTIVE" /\ secs[k].span[1] = i)
                       => secs[k].span[2] = SpanEndFrom(text, i)

\* the text out of which the notification splitter cuts its RULES sections
RulesContent(content) ==
    IF RulesSpan(content) = <<>> THEN <<>> ELSE SpanText(content, RulesSpan(content)[1])

\* the positions of rules_content at which a RULES section starts
RuleSectionStarts(rules_content) ==
    {p \in 1..Len(rules_content) :
        MarkerAt(rules_content, p) /\ Strip(SubSeq(rules_content, p, Len(rules_content))) # <<>>}

\* C24: in the notification splitter each RULES section starts at a marker
\* `<number>.` and extends to the next marker, and the rule_number of the
\* chunk built from it is the complete number of that marker: no section
\* starts inside a run of digits (a rule opened by "12." gives one section,
\* whose chunk has rule_number "12").
C24_RuleNumberComplete ==
    (family = "notification" /\ dpc = "chunks") =>
        LET rules_content == RulesContent(frame.english_content)
            secs == RuleSections(rules_content)
        IN  /\ \A p \in RuleSectionStarts(rules_content) :
                   p = 1 \/ rules_content[p - 1] \notin Digits
            /\ \A k \in 1..Len(secs) :
                   /\ MarkerAt(secs[k].text, 1)
                   /\ \A c \in Range(_process_rules(secs[k].text)) :
                          c.rule_number = LeadingNumber(secs[k].text)

\* the positions of the numbered sub-points "(k)" of a section, in source order
SubPoints(content) ==
    LET pts == {i \in 1..Len(content) : SubRuleAt(content, i)}
    IN  [k \in 1..Cardinality(pts) |->
            CHOOSE i \in pts : Cardinality({j \in pts : j < i}) = k - 1]

\* the number k of the sub-point "(k)" at position i
SubPointNumber(content, i) == SubSeq(content, i + 1, i + DigitRun(content, i + 1))

\* the stripped text of the sub-point at position i: from behind its "(k)" to
\* the next sub-point or the end of the section
SubPointText(content, i) ==
    LET from == i + DigitRun(content, i + 1) + 2
        next == {j \in from..Len(content) : SubRuleAt(content, j)}
    IN  Strip(SubSeq(content, from, IF next = {} THEN Len(content) ELSE Min(next) - 1))

\* what _process_rules is to emit for a section, by the three cases
RuleChunksExpected(content, out) ==
    LET r == LeadingNumber(content)
        pts == SubPoints(content)
        long == SelectSeq(pts, LAMBDA i : CharLen(SubPointText(content, i)) >= min_chunk_size)
    IN  IF ~ MarkerAt(content, 1) THEN out = <<>>
        ELSE IF pts = <<>>
        THEN /\ Len(out) = 1
             /\ out[1].chunk_type = "RULE"
             /\ out[1].chunk_id = <<"rule_">> \o r
             /\ out[1].rule_number = r
             /\ out[1].sub_rule_number = NoneVal
             /\ out[1].content = content
        ELSE /\ Len(out) = Len(long)
             /\ \A k \in 1..Len(long) :
                    /\ out[k].chunk_type = "SUB_RULE"
                    /\ out[k].rule_number = r
                    /\ out[k].sub_rule_number = SubPointNumber(content, long[k])
                    /\ out[k].chunk_id =
                           <<"rule_">> \o r \o <<"_subrule_">> \o SubPointNumber(content, long[k])
                    /\ out[k].content = SubPointText(content, long[k])

\* the RULES sections of the text of the current call
CurrentRuleSections == RuleSections(RulesContent(frame.english_content))

\* C25: _process_rules on a RULES section with rule number r emits, when the
\* section has numbered sub-points (k), exactly one SUB_RULE chunk per
\* sub-point whose stripped text has at least min_chunk_size characters, in
\* source order, tagged rule_number r, sub_rule_number k and chunk_id
\* rule_r_subrule_k, and nothing for the shorter sub-points; without a
\* sub-point it emits one RULE chunk holding the whole section under
\* rule_number r; for a section with no leading number it emits nothing and
\* raises nothing.
C25_ProcessRules ==
    (family = "notification" /\ dpc = "chunks") =>
        \A k \in 1..Len(CurrentRuleSections) :
            RuleChunksExpected(CurrentRuleSections[k].text,
                               _process_rules(CurrentRuleSections[k].text))

\* C25 witness: the notification with sub-points is being chunked: its rule 5
\* gives three SUB_RULE chunks for four sub-points.
C25_Witness ==
    /\ family = "notification"
    /\ dpc = "chunks"
    /\ file = SubRulesNotification
    /\ Len(CurrentRuleSections) = 1
    /\ Len(SubPoints(CurrentRuleSections[1].text)) = 4
    /\ Len(_process_rules(CurrentRuleSections[1].text)) = 3

----------------------------------------------------------------------------
(* The batch drivers: process_folder (scripts/process_circular.py and
   scripts/old/process_rules.py) calls process_file of one processor for
   every file of a folder and keeps statistics; process_files
   (scripts/merge_chunks_circular.py) loads the saved chunks and metadata of
   every file and calls merge_chunks.  Each loop body runs in a try block
   with `except Exception`. *)

MaxFiles == 2

ListsUpTo(S, n) == UNION {[1..k -> S] : k \in 0..n}

\* the texts of a folder; the plain ones (no date, only Hindi) make
\* process_file raise
BatchDocs(fam) ==
    IF fam = "circular"
    THEN {FullHeader \o PlainBody, FullHeader \o Para1, PlainBody}
    ELSE {FullNotificationHeader \o PlainNotificationBody, PlainNotificationBody,
          <<"<U+0905 U+0938>", " ", "<U+0928 U+092E>", NL>>}

\* the saved files of one document as process_files finds them: a chunks
\* file that json.load can or cannot read, with or without a metadata file
SavedFile(has_metadata, readable, cs) ==
    [has_metadata |-> has_metadata, readable |-> readable, chunks |-> cs,
     metadata |-> DocMetadata("IBBI/LA/001/2018", "hash1")]

SavedFiles ==
    {SavedFile(TRUE, TRUE, <<C6_Section3, C6_BareYear>>),
     SavedFile(TRUE, TRUE, <<C6_Section3, DirectiveChunk(<<"4">>, <<"4.">>, BodyBig)>>),
     SavedFile(TRUE, FALSE, <<>>),
     SavedFile(FALSE, TRUE, <<>>)}

NoStats == [total_files |-> 0, successful |-> 0, failed |-> 0, total_chunks |-> 0]

NewBatch(driver, files) ==
    [driver |-> driver, files |-> files, k |-> 0, pc |-> "next", result |-> NoneVal,
     stats |-> NoStats, written |-> <<>>, log |-> <<>>]

InitBatch ==
    /\ family \in {"circular", "notification"}
    /\ batch \in {NewBatch("process_folder", fs) : fs \in ListsUpTo(BatchDocs(family), MaxFiles)}
                 \cup (IF family = "circular"
                       THEN {NewBatch("process_files", fs) : fs \in ListsUpTo(SavedFiles, MaxFiles)}
                       ELSE {})
    /\ file = <<>>
    /\ DocIdle
    /\ act = NoAct
    /\ parser = NoParser
    /\ input = <<>>
    /\ metadata = DocMetadata("", "")
    /\ called_with = [chunks |-> <<>>, metadata |-> DocMetadata("", "")]
    /\ shares = NoSharing
    /\ chunks = <<>>
    /\ merged_chunks = <<>>
    /\ current_chunk = <<>>
    /\ idx = 0
    /\ pc = "done"
    /\ last = NoStep

\* the loop head: the next file of the glob.  process_folder counts it in
\* total_files; process_files skips a chunks file without a metadata file.
BatchNextFile ==
    /\ batch.driver # "none"
    /\ batch.pc = "next"
    /\ batch.k < Len(batch.files)
    /\ batch' =
          IF batch.driver = "process_folder"
          THEN [batch EXCEPT !.k = @ + 1, !.stats.total_files = @ + 1, !.pc = "try"]
          ELSE IF ~ batch.files[batch.k + 1].has_metadata
          THEN [batch EXCEPT !.k = @ + 1, !.log = Append(@, <<"skipped", batch.k + 1>>)]
          ELSE [batch EXCEPT !.k = @ + 1, !.pc = "try"]
    /\ UNCHANGED <<mergeVars, docVars, workerVars, act, parser>>

\* process_folder: result = processor.process_file(md_file), on the one
\* processor of the batch
BatchProcessFile ==
    /\ batch.driver = "process_folder"
    /\ batch.pc = "try"
    /\ LET text == batch.files[batch.k]
           eng == IF family = "notification" THEN _extract_english_content(text)
                  ELSE Returned(<<>>)
           md == ExtractMetadata(family, text, Md5(text), clock)
           fr == [content |-> text, doc_hash |-> Md5(text), english_content |-> eng.value]
       IN  IF eng.raised # ""
           THEN /\ batch' = [batch EXCEPT !.pc = "except", !.result = eng]
                /\ UNCHANGED <<self_metadata, self_chunks>>
           ELSE IF md.raised # ""
           THEN /\ batch' = [batch EXCEPT !.pc = "except", !.result = md]
                /\ UNCHANGED <<self_metadata, self_chunks>>
           ELSE \E new_chunks \in {AssignChunks(self_chunks, ChunkContent(family, fr))} :
                    /\ self_metadata' = md.value
                    /\ self_chunks' = new_chunks
                    /\ batch' = [batch EXCEPT
                                    !.pc = "save",
                                    !.result = Returned([metadata |-> md.value,
                                                         chunks |-> new_chunks])]
    /\ UNCHANGED <<family, file, clock, frame, dpc, results>>
    /\ UNCHANGED <<mergeVars, workerVars, act, parser>>

\* process_files: chunks_data = load_json_file(...); metadata_data = ...;
\* merge_chunks(chunks_data, metadata_data) is entered
BatchLoad ==
    /\ batch.driver = "process_files"
    /\ batch.pc = "try"
    /\ LET f == batch.files[batch.k]
       IN  IF ~ f.readable
           THEN /\ batch' = [batch EXCEPT !.pc = "except",
                                          !.result = Raised("JSONDecodeError")]
                /\ UNCHANGED mergeVars
           ELSE /\ batch' = [batch EXCEPT !.pc = "merge"]
                /\ input' = f.chunks
                /\ metadata' = f.metadata
                /\ called_with' = [chunks |-> f.chunks, metadata |-> f.metadata]
                /\ shares' = NoSharing
                /\ chunks' = <<>>
                /\ merged_chunks' = <<>>
                /\ current_chunk' = <<>>
                /\ idx' = 0
                /\ pc' = "start"
                /\ last' = NoStep
    /\ UNCHANGED <<docVars, workerVars, act, parser>>

\* the rest of the try block: the results are written (the write itself may
\* fail), process_folder then counts the file as successful and adds its
\* chunks to total_chunks
BatchSave ==
    /\ \/ batch.driver = "process_folder" /\ batch.pc = "save"
       \/ batch.driver = "process_files" /\ batch.pc = "merge" /\ pc = "done"
    /\ \E written \in BOOLEAN :
          batch' =
             IF ~ written
             THEN [batch EXCEPT !.pc = "except", !.result = Raised("OSError")]
             ELSE IF batch.driver = "process_folder"
             THEN [batch EXCEPT
                      !.written = Append(@, [file |-> batch.k,
                                             chunks |-> Len(batch.result.value.chunks)]),
                      !.stats.successful = @ + 1,
                      !.stats.total_chunks = @ + Len(batch.result.value.chunks),
                      !.log = Append(@, <<"ok", batch.k>>),
                      !.result = NoneVal,
                      !.pc = "next"]
             ELSE [batch EXCEPT
                      !.written = Append(@, [file |-> batch.k, chunks |-> Len(merged_chunks)]),
                      !.log = Append(@, <<"ok", batch.k>>),
                      !.pc = "next"]
    /\ UNCHANGED <<mergeVars, docVars, workerVars, act, parser>>

\* Variant: the exception is not caught and ends the loop.
BatchExcept_Propagate ==
    /\ batch.driver # "none"
    /\ batch.pc = "except"
    /\ batch' = [batch EXCEPT !.pc = "done"]
    /\ UNCHANGED <<mergeVars, docVars, workerVars, act, parser>>

\* except Exception as e: the file is counted as failed (process_folder) and
\* the error is logged; the loop goes on
BatchExcept ==
    /\ batch.driver # "none"
    /\ batch.pc = "except"
    /\ batch' =
          IF batch.driver = "process_folder"
          THEN [batch EXCEPT !.stats.failed = @ + 1,
                             !.log = Append(@, <<"error", batch.k>>),
                             !.result = NoneVal,
                             !.pc = "next"]
          ELSE [batch EXCEPT !.log = Append(@, <<"error", batch.k>>),
                             !.result = NoneVal,
                             !.pc = "next"]
    /\ UNCHANGED <<mergeVars, docVars, workerVars, act, parser>>

\* the glob is exhausted: return stats
BatchReturn ==
    /\ batch.driver # "none"
    /\ batch.pc = "next"
    /\ batch.k = Len(batch.files)
    /\ batch' = [batch EXCEPT !.pc = "done"]
    /\ UNCHANGED <<mergeVars, docVars, workerVars, act, parser>>

NextBatch ==
    BatchNextFile \/ BatchProcessFile \/ BatchLoad \/ SpecialCases \/ LoopStep \/ Return
    \/ BatchSave \/ BatchExcept \/ BatchReturn

SpecBatch == InitBatch /\ [][NextBatch]_vars

RECURSIVE SumSeq(_)
SumSeq(s) == IF s = <<>> THEN 0 ELSE Head(s) + SumSeq(Tail(s))

\* processing document i of the batch raises: process_file raises for its
\* text, or its chunks file cannot be loaded
ProcessingRaises(i) ==
    IF batch.driver = "process_folder"
    THEN FreshResult(family, batch.files[i]).raised # ""
    ELSE batch.files[i].has_metadata /\ ~ batch.files[i].readable

LogEntries(i) == {j \in 1..Len(batch.log) : batch.log[j][2] = i}

\* C26: in the batch drivers a document whose processing raises is isolated:
\* the exception is caught, the document is counted (logged) as failed and
\* nothing is written for it, every document of the batch is still handled,
\* and when process_folder returns, total_files == successful + failed and
\* total_chunks is the sum of the chunk counts of the successful documents.
C26_FailuresIsolated ==
    (batch.driver # "none" /\ batch.pc = "done") =>
        LET n == Len(batch.files)
        IN  /\ batch.k = n
            /\ \A i \in 1..n : Cardinality(LogEntries(i)) = 1
            /\ \A i \in 1..n :
                   ProcessingRaises(i) =>
                       /\ <<"error", i>> \in Range(batch.log)
                       /\ \A j \in 1..Len(batch.written) : batch.written[j].file # i
            /\ batch.driver = "process_folder" =>
                   /\ batch.stats.total_files = n
                   /\ batch.stats.total_files = batch.stats.successful + batch.stats.failed
                   /\ batch.stats.successful = Len(batch.written)
                   /\ batch.stats.failed =
                          Cardinality({i \in 1..n : <<"error", i>> \in Range(batch.log)})
                   /\ batch.stats.total_chunks =
                          SumSeq([j \in 1..Len(batch.written) |->
                                     Len(FreshResult(family,
                                                     batch.files[batch.written[j].file]).value.chunks)])

\* C26 witness: process_folder has returned from a folder of two files, the
\* first of which made process_file raise; the second was processed and its
\* chunks counted.
C26_Witness ==
    /\ batch.driver = "process_folder"
    /\ batch.pc = "done"
    /\ Len(batch.files) = 2
    /\ ProcessingRaises(1)
    /\ ~ ProcessingRaises(2)
    /\ batch.stats.total_files = 2
    /\ batch.stats.failed = 1
    /\ batch.stats.successful = 1
    /\ batch.stats.total_chunks > 0

----------------------------------------------------------------------------
(* Paragraph numbers and chunk identifiers of the results *)

\* the paragraph numbers an output chunk carries, in either field
ParagraphNumbersOf(chunk) ==
    (IF "paragraph_number" \in chunk.keys /\ Truthy(chunk.paragraph_number)
     THEN {PyStr(chunk.paragraph_number)} ELSE {})
    \cup (IF "paragraph_numbers" \in chunk.keys THEN Range(chunk.paragraph_numbers) ELSE {})

\* C27: no paragraph number is lost by merging: for every chunk returned by
\* merge_chunks, the paragraph number of every input chunk folded into it is
\* in its paragraph_number or its paragraph_numbers, also for a third chunk
\* merged into a pluralized accumulator and for a numbered chunk merged into
\* an accumulator whose paragraph_number is None.  The number read off a
\* bare-year artifact ("2016.") is no paragraph number and is left out.
C27_NoParagraphNumberLost ==
    pc = "done" =>
        LET runs == RunsFrom(merged_chunks, called_with.chunks, 1)
        IN  /\ IsRunPartition(merged_chunks, called_with.chunks)
            /\ \A r \in 1..Len(runs) :
                   \A i \in runs[r][1]..runs[r][2] :
                       (/\ Truthy(GetParagraphNumber(called_with.chunks[i]))
                        /\ ~ IsYearArtifact(called_with.chunks[i])) =>
                           PyStr(GetParagraphNumber(called_with.chunks[i]))
                               \in ParagraphNumbersOf(merged_chunks[r])

ChunkIds(cs) == [k \in 1..Len(cs) |-> cs[k].chunk_id]

\* C28: within one document the chunk_ids of the chunks returned by
\* process_file are pairwise distinct, for every input text, also when a
\* paragraph number or a sub-rule number of one rule occurs more than once.
C28_ChunkIdsDistinct ==
    \A r \in 1..Len(results) :
        results[r].raised = "" => NoDuplicates(ChunkIds(results[r].value.chunks))

----------------------------------------------------------------------------
(* chunk_markdown_document (scripts/chunking_act.py): the lines of a
   markdown text are collected into chunks; a header closes the chunk before
   it, a blank line closes a chunk that has reached max_chunk_size, a list is
   kept together, and a chunk that grows past max_chunk_size is cut at its
   last blank line. *)

MaxLines == 3

DefaultMaxChunkSize == 1000

\* the max_chunk_size of the calls with a small size: a bound of the model,
\* reached by two lines of the pool
SmallMaxChunkSize == 20

\* the lines of the texts given to chunk_markdown_document (text.splitlines())
ActLines ==
    {<<"#", " ", "Title">>,
     <<"#", "#", " ", "Scope">>,
     <<>>,
     <<"-", " ", "first item">>,
     <<"1", ".", " ", "second item">>,
     <<"Plain text line">>}

\* merge_chunks is not running
MergeIdle ==
    /\ input = <<>>
    /\ metadata = DocMetadata("", "")
    /\ called_with = [chunks |-> <<>>, metadata |-> DocMetadata("", "")]
    /\ shares = NoSharing
    /\ chunks = <<>>
    /\ merged_chunks = <<>>
    /\ current_chunk = <<>>
    /\ idx = 0
    /\ pc = "done"
    /\ last = NoStep

\* "\n".join(lines)
RECURSIVE JoinNL(_)
JoinNL(ls) ==
    IF ls = <<>> THEN <<>>
    ELSE IF Len(ls) = 1 THEN ls[1]
    ELSE Head(ls) \o <<NL>> \o JoinNL(Tail(ls))

\* content.split("\n")
RECURSIVE SplitNL(_)
SplitNL(s) ==
    LET nls == {p \in 1..Len(s) : s[p] = NL}
    IN  IF nls = {} THEN <<s>>
        ELSE LET p == CHOOSE q \in nls : \A r \in nls : q <= r
             IN  <<SubSeq(s, 1, p - 1)>> \o SplitNL(SubSeq(s, p + 1, Len(s)))

\* len(re.match(r"^#+", line).group())
RECURSIVE HeaderLevel(_)
HeaderLevel(line) ==
    IF line # <<>> /\ Head(line) = "#" THEN 1 + HeaderLevel(Tail(line)) ELSE 0

\* line.strip("# ")
RECURSIVE StripHashBlank(_)
StripHashBlank(s) ==
    IF s = <<>> THEN s
    ELSE IF Head(s) \in {"#", " "} THEN StripHashBlank(Tail(s))
    ELSE IF s[Len(s)] \in {"#", " "} THEN StripHashBlank(SubSeq(s, 1, Len(s) - 1))
    ELSE s

is_paragraph_break(line) == Strip(line) = <<>>

\* re.match(r"^[\*\-\+]\s+|^\d+\.\s+", line.strip())
is_list_item(line) ==
    LET s == Strip(line)
        digits == {k \in 1..Len(s) : \A j \in 1..k : s[j] \in Digits}
        n == IF digits = {} THEN 0 ELSE Max(digits)
    IN  \/ Len(s) >= 2 /\ s[1] \in {"*", "-", "+"} /\ s[2] \in Whitespace
        \/ n >= 1 /\ Len(s) >= n + 2 /\ s[n + 1] = "." /\ s[n + 2] \in Whitespace

\* section_stack after a header line: deeper and equal levels are popped
RECURSIVE PopLevels(_, _)
PopLevels(stack, level) ==
    IF stack # <<>> /\ stack[Len(stack)].level >= level
    THEN PopLevels(SubSeq(stack, 1, Len(stack) - 1), level)
    ELSE stack

ActChunk(ls, stack) == [content |-> JoinNL(ls), sections |-> stack]

RECURSIVE SumCharLen(_)
SumCharLen(ls) == IF ls = <<>> THEN 0 ELSE CharLen(Head(ls)) + SumCharLen(Tail(ls))

\* the last index of the run of list items and blank lines that starts at i
ListRunEnd(ls, i) ==
    Max({j \in i..Len(ls) :
            \A m \in i..j : is_list_item(ls[m]) \/ Strip(ls[m]) = <<>>})

\* the look-back for a paragraph break: the last blank line of the chunk that
\* is not its first line, 1 when there is none
BreakIndex(cc) ==
    LET blanks == {p \in 2..Len(cc) : is_paragraph_break(cc[p])}
    IN  IF blanks = {} THEN 1 ELSE Max(blanks)

InitAct ==
    /\ act \in {[pc |-> "for", lines |-> ls, max_chunk_size |-> m, k |-> 0, i |-> 0,
                 line |-> <<>>, current_chunk |-> <<>>, current_size |-> 0,
                 section_stack |-> <<>>, chunks |-> <<>>] :
                    ls \in ListsUpTo(ActLines, MaxLines),
                    m \in {SmallMaxChunkSize, DefaultMaxChunkSize}}
    /\ batch = NoBatch
    /\ parser = NoParser
    /\ family = "circular"
    /\ file = <<>>
    /\ DocIdle
    /\ MergeIdle

\* for i, line in enumerate(lines): the header branch
ActHeader ==
    /\ act.pc = "for"
    /\ act.k < Len(act.lines)
    /\ LET line == act.lines[act.k + 1]
           level == HeaderLevel(line)
           next == [act EXCEPT !.k = @ + 1, !.i = act.k + 1, !.line = line, !.pc = "break"]
       IN  act' =
              IF level = 0 THEN next
              ELSE [next EXCEPT
                       !.chunks = IF act.current_chunk # <<>>
                                  THEN Append(@, ActChunk(act.current_chunk, act.section_stack))
                                  ELSE @,
                       !.current_chunk = <<>>,
                       !.current_size = IF act.current_chunk # <<>> THEN 0 ELSE @,
                       !.section_stack =
                           Append(PopLevels(@, level),
                                  [level |-> level, title |-> StripHashBlank(line)])]
    /\ UNCHANGED <<mergeVars, docVars, workerVars, batch, parser>>

\* if is_paragraph_break(line): a chunk that has reached the size is closed
ActParagraphBreak ==
    /\ act.pc = "break"
    /\ act' =
          IF is_paragraph_break(act.line) /\ act.current_size >= act.max_chunk_size
          THEN [act EXCEPT
                   !.chunks = Append(@, ActChunk(act.current_chunk, act.section_stack)),
                   !.current_chunk = <<>>,
                   !.current_size = 0,
                   !.pc = "list"]
          ELSE [act EXCEPT !.pc = "list"]
    /\ UNCHANGED <<mergeVars, docVars, workerVars, batch, parser>>

\* if is_list_item(line): the inner while appends lines[i], lines[i+1], ...
\* as long as they are list items or blank, and `continue` goes to the next
\* line of the for loop, which is the line after `line`
ActListItem ==
    /\ act.pc = "list"
    /\ act' =
          IF is_list_item(act.line)
          THEN LET run == SubSeq(act.lines, act.i, ListRunEnd(act.lines, act.i))
               IN  [act EXCEPT
                       !.current_chunk = @ \o run,
                       !.current_size = @ + SumCharLen(run),
                       !.i = ListRunEnd(act.lines, act.i) + 1,
                       !.pc = "for"]
          ELSE [act EXCEPT !.pc = "append"]
    /\ UNCHANGED <<mergeVars, docVars, workerVars, batch, parser>>

\* current_chunk.append(line) and the size limit with its look-back
ActAppend ==
    /\ act.pc = "append"
    /\ LET cc == Append(act.current_chunk, act.line)
           size == act.current_size + CharLen(act.line)
           b == BreakIndex(cc)
       IN  act' =
              IF size >= act.max_chunk_size /\ b > 1
              THEN [act EXCEPT
                       !.chunks = Append(@, ActChunk(SubSeq(cc, 1, b - 1), act.section_stack)),
                       !.current_chunk = SubSeq(cc, b, Len(cc)),
                       !.current_size = SumCharLen(SubSeq(cc, b, Len(cc))),
                       !.pc = "for"]
              ELSE [act EXCEPT !.current_chunk = cc, !.current_size = size, !.pc = "for"]
    /\ UNCHANGED <<mergeVars, docVars, workerVars, batch, parser>>

\* after the loop: the final chunk, return chunks
ActFinal ==
    /\ act.pc = "for"
    /\ act.k = Len(act.lines)
    /\ act' = [act EXCEPT
                  !.chunks = IF act.current_chunk # <<>>
                             THEN Append(@, ActChunk(act.current_chunk, act.section_stack))
                             ELSE @,
                  !.pc = "done"]
    /\ UNCHANGED <<mergeVars, docVars, workerVars, batch, parser>>

NextAct == ActHeader \/ ActParagraphBreak \/ ActListItem \/ ActAppend \/ ActFinal

SpecAct == InitAct /\ [][NextAct]_vars

RECURSIVE ChunkLines(_)
ChunkLines(cs) ==
    IF cs = <<>> THEN <<>> ELSE SplitNL(Head(cs).content) \o ChunkLines(Tail(cs))

\* C29: chunk_markdown_document conserves its input: the lines of the
\* returned chunks, concatenated in chunk order, are exactly the input lines,
\* each once and in the original order, also for inputs with runs of list
\* items and list items followed by blank lines.
C29_LinesConserved ==
    act.pc = "done" => ChunkLines(act.chunks) = act.lines

----------------------------------------------------------------------------
(* CodeParser (scripts/act_parser.py): parse_code reads the first ten lines
   as the header of the Code and then builds parts, chapters and sections
   from the header lines it recognises, collecting the lines in between as
   the content of the current section. *)

MaxBodyLines == 4

HeaderLines == 10

\* the first lines of the Code
CodeHeader ==
    <<<<"THE INSOLVENCY AND BANKRUPTCY CODE", ",", " ", "2", "0", "1", "6">>,
      <<"ACT NO", ".", " ", "3", "1", " ", "OF", " ", "2", "0", "1", "6">>,
      <<"[", "2", "8", "th", " ", "May", ",", " ", "2", "0", "1", "6", ".", "]">>,
      <<"An Act to consolidate and amend the laws">>,
      <<>>, <<>>, <<>>, <<>>, <<>>, <<>>>>

\* the lines of the body of the Code
CodeLines ==
    {<<"PART", " ", "I", " ", "PRELIMINARY">>,
     <<"PART", " ", "II", " ", "INSOLVENCY RESOLUTION">>,
     <<"CHAPTER", " ", "II", " ", "DEFINITIONS">>,
     <<"1", ".", " ", "Short title", ".", EmDash, "This Code may be called the Code">>,
     <<"2", ".", " ", "Application", ".", " ", "The provisions apply to companies">>,
     <<"It extends to the whole of India">>,
     <<>>}

\* the tokens of [I|V|X]+
RomanTokens == {"I", "II", "III", "IV", "V", "VI", "IX", "X"}

\* the tokens that begin with a capital letter
CapitalTokens ==
    {"PART", "CHAPTER", "PRELIMINARY", "INSOLVENCY RESOLUTION", "DEFINITIONS",
     "Short title", "Application", "This Code may be called the Code",
     "The provisions apply to companies", "It extends to the whole of India",
     "An Act to consolidate and amend the laws", "THE INSOLVENCY AND BANKRUPTCY CODE",
     "ACT NO", "OF", "May"} \cup RomanTokens

\* the first index from i on that holds no white space (Len + 1 when none)
SkipBlanks(line, i) ==
    Min({j \in i..(Len(line) + 1) : j = Len(line) + 1 \/ line[j] \notin Whitespace})

\* re.match(r"^(<word>\s+[I|V|X]+)\s*(.*)", line): the two groups, or no match
KeywordMatch(word, line) ==
    LET j == SkipBlanks(line, 2)
    IN  IF Len(line) >= 3 /\ line[1] = word /\ j > 2 /\ j <= Len(line)
           /\ line[j] \in RomanTokens
        THEN [matched |-> TRUE, number |-> SubSeq(line, 1, j),
              name |-> SubSeq(line, SkipBlanks(line, j + 1), Len(line))]
        ELSE [matched |-> FALSE, number |-> <<>>, name |-> <<>>]

\* the number of digits the line begins with
LeadingDigits(line) ==
    Max({0} \cup {k \in 1..Len(line) : \A j \in 1..k : line[j] \in Digits})

\* re.match(r"^\d+\.\s*[A-Z]", line)
IsSectionHeader(line) ==
    LET n == LeadingDigits(line)
    IN  /\ n >= 1
        /\ Len(line) >= n + 2
        /\ line[n + 1] = "."
        /\ SkipBlanks(line, n + 2) <= Len(line)
        /\ line[SkipBlanks(line, n + 2)] \in CapitalTokens

\* re.match(r"^(\d+)\.\s*(.*?)(?:\.<dash>|\.|\-)\s*(.*)", line)
SectionMatch(line) ==
    LET n == LeadingDigits(line)
        seps == {q \in (n + 2)..Len(line) : line[q] \in {".", "-"}}
    IN  IF n >= 1 /\ Len(line) >= n + 1 /\ line[n + 1] = "." /\ seps # {}
        THEN LET q == Min(seps)
                 after == IF line[q] = "." /\ q < Len(line) /\ line[q + 1] = EmDash
                          THEN q + 2 ELSE q + 1
             IN  [matched |-> TRUE, number |-> SubSeq(line, 1, n),
                  name |-> SubSeq(line, SkipBlanks(line, n + 2), q - 1),
                  rest |-> SubSeq(line, SkipBlanks(line, after), Len(line))]
        ELSE [matched |-> FALSE, number |-> <<>>, name |-> <<>>, rest |-> <<>>]

\* content = " ".join(self.current_content); re.sub(r"\s+", " ", content).strip()
JoinedContent(ls) == Strip(CollapseWhitespace(JoinBlank(ls)))

\* def save_current_section(self)
save_current_section(p) ==
    IF p.current_section # <<>> /\ p.current_content # <<>>
    THEN LET s == p.current_section
         IN  [p EXCEPT
                 !.code_structure.parts[s[1]].chapters[s[2]].sections[s[3]].content =
                     JoinedContent(p.current_content),
                 !.current_content = <<>>,
                 !.saves = Append(@, [section |-> s,
                                      content |-> JoinedContent(p.current_content)])]
    ELSE p

\* def parse_part(self, line)
parse_part(p, line) ==
    LET m == KeywordMatch("PART", line)
    IN  IF m.matched
        THEN [p EXCEPT
                 !.code_structure.parts =
                     Append(@, [part_number |-> m.number, part_name |-> m.name,
                                chapters |-> <<>>]),
                 !.current_part = Len(p.code_structure.parts) + 1,
                 !.current_chapter = 0]
        ELSE p

\* def create_default_chapter(self)
create_default_chapter(p) ==
    IF p.current_part # 0 /\ p.code_structure.parts[p.current_part].chapters = <<>>
    THEN [p EXCEPT
             !.code_structure.parts[p.current_part].chapters =
                 <<[chapter_number |-> <<"CHAPTER", " ", "I">>,
                    chapter_name |-> <<"General">>, sections |-> <<>>]>>,
             !.current_chapter = 1]
    ELSE p

\* def parse_chapter(self, line)
parse_chapter(p, line) ==
    LET m == KeywordMatch("CHAPTER", line)
    IN  IF p.current_part # 0 /\ m.matched
        THEN [p EXCEPT
                 !.code_structure.parts[p.current_part].chapters =
                     Append(@, [chapter_number |-> m.number, chapter_name |-> m.name,
                                sections |-> <<>>]),
                 !.current_chapter =
                     Len(p.code_structure.parts[p.current_part].chapters) + 1]
        ELSE p

\* def parse_section(self, line); p.i is the index of the line
parse_section(p, line) ==
    LET m == SectionMatch(line)
    IN  IF p.current_chapter # 0 /\ m.matched
        THEN LET a == p.current_part
                 b == p.current_chapter
                 c == Len(p.code_structure.parts[a].chapters[b].sections) + 1
             IN  [p EXCEPT
                     !.current_content = IF m.rest # <<>> THEN Append(@, m.rest) ELSE @,
                     !.code_structure.parts[a].chapters[b].sections =
                         Append(@, [section_number |-> m.number,
                                    section_name |-> Strip(m.name), content |-> <<>>]),
                     !.current_section = <<a, b, c>>,
                     !.opened = Append(@, [section |-> <<a, b, c>>, line |-> p.i + 1])]
        ELSE p

\* "<words>" in line
InLine(words, line) ==
    \E j \in 1..(Len(line) - Len(words) + 1) : SubSeq(line, j, j + Len(words) - 1) = words

\* the header loop, for one line
RECURSIVE HeaderFrom(_, _, _)
HeaderFrom(cs, ls, i) ==
    IF i > Len(ls) \/ i > HeaderLines THEN cs
    ELSE LET line == Strip(ls[i])
         IN  HeaderFrom(IF InLine(<<"THE INSOLVENCY AND BANKRUPTCY CODE">>, line)
                        THEN [cs EXCEPT !.code_name = line]
                        ELSE IF InLine(<<"ACT NO", ".">>, line)
                        THEN [cs EXCEPT !.code_number = line]
                        ELSE IF /\ InLine(<<"[">>, line) /\ InLine(<<"]">>, line)
                                /\ InLine(<<".">>, line)
                        THEN [cs EXCEPT !.date = line]
                        ELSE cs,
                        ls, i + 1)

\* CodeParser() and the call parse_code(text): lines = text.split("\n")
InitParser ==
    /\ parser \in {[pc |-> "header", lines |-> CodeHeader \o body, i |-> 0,
                    code_structure |-> [code_name |-> <<>>, code_number |-> <<>>,
                                        date |-> <<>>, parts |-> <<>>],
                    current_part |-> 0, current_chapter |-> 0, current_section |-> <<>>,
                    current_content |-> <<>>, opened |-> <<>>, saves |-> <<>>] :
                       body \in ListsUpTo(CodeLines, MaxBodyLines)}
    /\ batch = NoBatch
    /\ act = NoAct
    /\ family = "circular"
    /\ file = <<>>
    /\ DocIdle
    /\ MergeIdle

\* while i < len(lines) and i < 10: the header
ParseHeader ==
    /\ parser.pc = "header"
    /\ parser' = [parser EXCEPT
                     !.code_structure = HeaderFrom(@, parser.lines, 1),
                     !.i = IF Len(parser.lines) < HeaderLines THEN Len(parser.lines)
                           ELSE HeaderLines,
                     !.pc = "main"]
    /\ UNCHANGED <<mergeVars, docVars, workerVars, batch, act>>

CurrentLine == Strip(parser.lines[parser.i + 1])

AtLine == parser.pc = "main" /\ parser.i < Len(parser.lines)

\* if re.match(r"^PART\s+[I|V|X]+", line)
ParserPart ==
    /\ AtLine
    /\ CurrentLine # <<>>
    /\ KeywordMatch("PART", CurrentLine).matched
    /\ parser' = [create_default_chapter(
                      parse_part(save_current_section(parser), CurrentLine))
                  EXCEPT !.i = parser.i + 1]
    /\ UNCHANGED <<mergeVars, docVars, workerVars, batch, act>>

\* elif re.match(r"^CHAPTER\s+[I|V|X]+", line)
ParserChapter ==
    /\ AtLine
    /\ CurrentLine # <<>>
    /\ ~ KeywordMatch("PART", CurrentLine).matched
    /\ KeywordMatch("CHAPTER", CurrentLine).matched
    /\ parser' = [parse_chapter(save_current_section(parser), CurrentLine)
                  EXCEPT !.i = parser.i + 1]
    /\ UNCHANGED <<mergeVars, docVars, workerVars, batch, act>>

\* elif re.match(r"^\d+\.\s*[A-Z]", line)
ParserSection ==
    /\ AtLine
    /\ CurrentLine # <<>>
    /\ ~ KeywordMatch("PART", CurrentLine).matched
    /\ ~ KeywordMatch("CHAPTER", CurrentLine).matched
    /\ IsSectionHeader(CurrentLine)
    /\ LET saved == save_current_section(parser)
           chaptered == IF saved.current_chapter = 0 THEN create_default_chapter(saved)
                        ELSE saved
       IN  parser' = [parse_section(chaptered, CurrentLine) EXCEPT !.i = parser.i + 1]
    /\ UNCHANGED <<mergeVars, docVars, workerVars, batch, act>>

\* a blank line is skipped; any other line is content of the current section,
\* if there is one
ParserOtherLine ==
    /\ AtLine
    /\ \/ CurrentLine = <<>>
       \/ /\ ~ KeywordMatch("PART", CurrentLine).matched
          /\ ~ KeywordMatch("CHAPTER", CurrentLine).matched
          /\ ~ IsSectionHeader(CurrentLine)
    /\ parser' =
          IF CurrentLine # <<>> /\ parser.current_section # <<>>
          THEN [parser EXCEPT !.current_content = Append(@, CurrentLine), !.i = @ + 1]
          ELSE [parser EXCEPT !.i = @ + 1]
    /\ UNCHANGED <<mergeVars, docVars, workerVars, batch, act>>

\* after the loop: self.save_current_section()
ParserFinish ==
    /\ parser.pc = "main"
    /\ parser.i = Len(parser.lines)
    /\ parser' = [save_current_section(parser) EXCEPT !.pc = "done"]
    /\ UNCHANGED <<mergeVars, docVars, workerVars, batch, act>>

NextParser ==
    ParseHeader \/ ParserPart \/ ParserChapter \/ ParserSection \/ ParserOtherLine
    \/ ParserFinish

SpecParser == InitParser /\ [][NextParser]_vars

IsHeaderLine(line) ==
    \/ KeywordMatch("PART", line).matched
    \/ KeywordMatch("CHAPTER", line).matched
    \/ IsSectionHeader(line)

\* the lines of the section opened at line h: the rest of its header line and
\* the lines up to the next PART, CHAPTER or section header
OwnLines(ls, h) ==
    LET stops == {j \in (h + 1)..Len(ls) : IsHeaderLine(Strip(ls[j]))}
        last_line == IF stops = {} THEN Len(ls) ELSE Min(stops) - 1
        first == IF SectionMatch(Strip(ls[h])).rest # <<>>
                 THEN <<SectionMatch(Strip(ls[h])).rest>> ELSE <<>>
    IN  first \o SelectSeq([j \in 1..(last_line - h) |-> Strip(ls[h + j])],
                           LAMBDA l : l # <<>>)

SectionAt(path) ==
    parser.code_structure.parts[path[1]].chapters[path[2]].sections[path[3]]

\* C30: in CodeParser.parse_code the content stored for a section consists
\* only of that section's own lines, and once it has been saved at a PART,
\* CHAPTER or section header it is never replaced or altered by lines that
\* come after a PART or CHAPTER header and before the next section header.
C30_SectionContentOwnLines ==
    parser.pc \in {"main", "done"} =>
        /\ \A k \in 1..Len(parser.opened) :
               SectionAt(parser.opened[k].section).content
                   \in {<<>>, JoinedContent(OwnLines(parser.lines, parser.opened[k].line))}
        /\ \A k \in 1..Len(parser.saves) :
               SectionAt(parser.saves[k].section).content = parser.saves[k].content

====
